---- MODULE Spec2Model ----
(***************************************************************************)
(* Model of the scan data pipeline (matanhalpert/scan_data_pipeline):      *)
(* the persistence reconciler (src/load/load.py), the pending-fact         *)
(* accumulator and the footprint resolver (src/transform).                 *)
(*                                                                         *)
(* Storage is the MySQL schema of src/database/models.py accessed through  *)
(* one SQLAlchemy session per load: "db" is the committed state, "tx" the  *)
(* state seen inside the session's transaction, "sess_new" the objects     *)
(* added to the session and not flushed yet.                               *)
(***************************************************************************)
EXTENDS Integers, Sequences, FiniteSets, TLC

(* ------------------------------ bounds --------------------------------- *)
MaxFootprints == 2      \* longest new_digital_footprints list given to load
MaxPending == 2         \* most pending identity (activity) entries given to load
MaxLoads == 2           \* number of load() calls in one behaviour

(* ------------------------------ domains -------------------------------- *)
Urls == {"u1", "u2"}
NoMedia == "no_media"
Times == {1}
Users == {1, 2}
\* the natural keys and facets that occur in the results given to load()
LoadPairs == {<<"u1", NoMedia>>, <<"u1", "m1">>, <<"u2", "m1">>}
Facets == {"name"}
NoId == 0

MaxClock == 2

NoTimestamp == 0

Timestamps == 0..MaxClock

MaxItems == 2

FootprintTypes == {"text", "image"}

MaxTotal == 90          \* longest item list given to the chunk launcher

\* _calculate_chunk_size
MinChunkSize == 10
MaxChunkSize == 50
MaxConcurrentBatches == 8
DefaultCpuCount == 4
FallbackChunkSize == 20
FallbackThreshold == 50
NoCpuCount == 0
CpuCounts == {NoCpuCount, 1, 2, 8, 16}

(* ------------------------------ helpers -------------------------------- *)
Range(s) == {s[i] : i \in 1..Len(s)}

SeqsUpTo(S, n) == UNION {[1..k -> S] : k \in 0..n}

NoDup(s) == \A i, j \in 1..Len(s) : i # j => s[i] # s[j]

EmptyTables == [fps |-> {}, ids |-> {}, acts |-> {}, links |-> {}]

EmptyLoadResult ==
    [footprints_inserted |-> 0, footprints_skipped |-> 0,
     identities_inserted |-> 0, identities_skipped |-> 0,
     activity_logs_inserted |-> 0, activity_logs_skipped |-> 0,
     user_footprint_links_inserted |-> 0, errors |-> 0]

\* TransformationResult.processing_stats
ZeroStats ==
    [items_processed |-> 0, footprints_found |-> 0, new_footprints |-> 0,
     existing_footprints |-> 0, identities_detected |-> 0,
     media_files_processed |-> 0, videos_transcribed |-> 0, face_matches_found |-> 0]

EmptyResult ==
    [new_digital_footprints |-> <<>>, pending_identities |-> <<>>,
     pending_activity_logs |-> <<>>, processing_stats |-> ZeroStats]

NothingTracked == [identities |-> {}, activity_logs |-> {}]

NoCall == [op |-> "none"]

NoRun == [runner |-> "none"]

NoResolving == [open |-> FALSE, calls |-> <<>>]

NoApplication == [of |-> "none"]

NoChunking == [pc |-> "idle"]

NoMerging == [parts |-> <<>>]

NoExtraction == [ready |-> <<>>, stage |-> <<>>, data |-> <<>>]

VARIABLES
    db,             \* committed storage: footprint, identity, activity, link tables
    tx,             \* the tables as seen inside the session's transaction
    sess_new,       \* objects added to the session, not flushed yet
    sess_deactive,  \* a flush failed: the session refuses work until rollback()
    pc,             \* position of the running load() call
    load_status,    \* Loader._load_status
    load_result,    \* Loader._load_result
    user_id,        \* Loader._user.id
    tr,             \* the TransformationResult given to load()
    rows,           \* load()'s locals: personal identities and activity_logs
    raised,         \* a LoadError left load()
    loads,          \* number of Loader objects created
    db_before,      \* committed storage when the running load() started
    paths,          \* per stage of the running load(): how its insert went
    tracked,        \* what the callers asked to track, per footprint natural key
    last_call,      \* the last _track_pending_* call: arguments, return, lengths
    now,            \* the reading of datetime.now()
    cache,          \* the digital_footprint:* keys of the Redis cache
    items,          \* the raw records of the transformation run
    pos,            \* number of raw records processed
    batch,          \* the TransformationResults of the _process_batch tasks
    outcomes,       \* per raw record: how far it is and how the footprint resolver ended
    run,            \* the tasks of the unified transformation
    chunking,       \* a run of the chunk launcher: sizes and task counts
    merging,        \* results being merged, and what they held before
    ex,             \* the social-media extraction: event loop, usernames, matches
    resolving,      \* the calls of the footprint resolver and of _get_user, in order
    app             \* one application of a function of the pipeline: input and output

trackVars == <<tracked, last_call, now>>

resolveVars == <<cache, items, pos, batch, outcomes, run>>

callVars == <<resolving, app>>

sideVars == <<chunking, merging, ex, resolving, app>>

loadVars == <<db, tx, sess_new, sess_deactive, pc, load_status, load_result,
              user_id, tr, rows, raised, loads, db_before, paths>>

vars == <<db, tx, sess_new, sess_deactive, pc, load_status, load_result,
          user_id, tr, rows, raised, loads, db_before, paths,
          tracked, last_call, now, cache, items, pos, batch, outcomes, run,
          chunking, merging, ex, resolving, app>>

(* --------------------------- storage schema ---------------------------- *)
FootprintIds(t) == {r.id : r \in t.fps}

\* uq_media_filepath_reference_url: MySQL never reports a conflict for a row
\* whose media_filepath is NULL
UniqueViolation(fps, fp) ==
    /\ fp.media # NoMedia
    /\ \E r \in fps : r.url = fp.url /\ r.media = fp.media

\* AUTO_INCREMENT primary key of digital_footprints
FreshId(fps) ==
    CHOOSE i \in 1..(Cardinality(fps) + 1) : i \notin {r.id : r \in fps}

\* mutant of FactViolation: the foreign key is not enforced
FactViolation_NoForeignKey(t, table, row, fpid) == row \in table

\* composite primary key and digital_footprint_id foreign key of the fact tables
FactViolation(t, table, row, fpid) ==
    \/ row \in table
    \/ fpid \notin FootprintIds(t)

IdentityViolation(t, row) == FactViolation(t, t.ids, row, row[1])

ActivityViolation(t, row) == FactViolation(t, t.acts, row, row[1])

LinkViolation(t, row) == FactViolation(t, t.links, row, row[2])

ObjViolation(t, o) ==
    CASE o.kind = "identity" -> IdentityViolation(t, o.row)
      [] o.kind = "activity" -> ActivityViolation(t, o.row)
      [] o.kind = "link" -> LinkViolation(t, o.row)

InsertObj(t, o) ==
    CASE o.kind = "identity" -> [t EXCEPT !.ids = @ \cup {o.row}]
      [] o.kind = "activity" -> [t EXCEPT !.acts = @ \cup {o.row}]
      [] o.kind = "link" -> [t EXCEPT !.links = @ \cup {o.row}]

\* Session state: [tx, new, deactive]
Sess(t, n, d) == [tx |-> t, new |-> n, deactive |-> d]

\* Session.flush(): INSERT every pending object; a failing INSERT rolls the
\* transaction back, expunges the pending objects and deactivates the session
Flush(s, committed) ==
    IF s.new = {} THEN [ok |-> TRUE, s |-> s]
    ELSE IF \E o \in s.new : ObjViolation(s.tx, o)
         THEN [ok |-> FALSE, s |-> Sess(committed, {}, TRUE)]
         ELSE [ok |-> TRUE,
               s |-> Sess([ids |-> s.tx.ids \cup {o.row : o \in {p \in s.new : p.kind = "identity"}},
                           acts |-> s.tx.acts \cup {o.row : o \in {p \in s.new : p.kind = "activity"}},
                           links |-> s.tx.links \cup {o.row : o \in {p \in s.new : p.kind = "link"}},
                           fps |-> s.tx.fps], {}, FALSE)]

\* a query on the session: refused on a deactivated session, otherwise
\* autoflush first
Query(s, committed) ==
    IF s.deactive THEN [ok |-> FALSE, s |-> s] ELSE Flush(s, committed)

\* Session.rollback()
Rollback(committed) == Sess(committed, {}, FALSE)

(* ----------------------- load: footprint stage -------------------------- *)
\* _load_digital_footprints, the try block: session.add() every footprint and
\* flush; the INSERTs run in list order and each one sets the object's id
RECURSIVE FlushFootprints(_, _, _)
FlushFootprints(fps, list, i) ==
    IF i > Len(list) THEN [ok |-> TRUE, fps |-> fps, list |-> list]
    ELSE IF UniqueViolation(fps, list[i])
         THEN [ok |-> FALSE, fps |-> fps, list |-> list]
         ELSE LET row == [list[i] EXCEPT !.id = FreshId(fps)]
              IN FlushFootprints(fps \cup {row}, [list EXCEPT ![i] = row], i + 1)

\* mutant of ExistingFootprint: the existence check looks at reference_url only
ExistingFootprint_ByUrlOnly(fps, fp) ==
    LET found == {r \in fps : r.url = fp.url}
    IN IF found = {} THEN NoId
       ELSE CHOOSE id \in {r.id : r \in found} : \A r \in found : id <= r.id

\* the query of _load_digital_footprints_individually: .first() of the rows
\* with the footprint's reference_url and media_filepath (IS NULL for None)
ExistingFootprint(fps, fp) ==
    LET found == {r \in fps : r.url = fp.url /\ r.media = fp.media}
    IN IF found = {} THEN NoId
       ELSE CHOOSE id \in {r.id : r \in found} : \A r \in found : id <= r.id

\* mutant of FootprintsIndividually: a footprint found in storage replaces
\* the stored row (the row is deleted and inserted again under a new id)
RECURSIVE FootprintsIndividually_ReplacesExisting(_, _, _, _)
FootprintsIndividually_ReplacesExisting(st, committed, list, i) ==
    IF i > Len(list) THEN [st EXCEPT !.list = list]
    ELSE LET q == Query(st.s, committed)
         IN IF ~q.ok
            THEN FootprintsIndividually_ReplacesExisting(
                     [st EXCEPT !.s = q.s, !.skip = @ + 1, !.errs = @ + 1],
                     committed, list, i + 1)
            ELSE LET existing == ExistingFootprint(q.s.tx.fps, list[i])
                     row == [list[i] EXCEPT !.id = FreshId(q.s.tx.fps)]
                 IN IF existing # NoId
                    THEN FootprintsIndividually_ReplacesExisting(
                             [st EXCEPT !.s = [q.s EXCEPT !.tx.fps =
                                                   {r \in @ : r.id # existing} \cup {row}],
                                        !.skip = @ + 1],
                             committed, [list EXCEPT ![i] = row], i + 1)
                    ELSE FootprintsIndividually_ReplacesExisting(
                             [st EXCEPT !.s = [q.s EXCEPT !.tx.fps = @ \cup {row}],
                                        !.ins = @ + 1],
                             committed, [list EXCEPT ![i] = row], i + 1)

\* mutant of FootprintsIndividually: a footprint found in storage gets the
\* stored id but is not counted as skipped
RECURSIVE FootprintsIndividually_ExistingUncounted(_, _, _, _)
FootprintsIndividually_ExistingUncounted(st, committed, list, i) ==
    IF i > Len(list) THEN [st EXCEPT !.list = list]
    ELSE LET q == Query(st.s, committed)
         IN IF ~q.ok
            THEN FootprintsIndividually_ExistingUncounted(
                     [st EXCEPT !.s = q.s, !.skip = @ + 1, !.errs = @ + 1],
                     committed, list, i + 1)
            ELSE LET existing == ExistingFootprint(q.s.tx.fps, list[i])
                 IN IF existing # NoId
                    THEN FootprintsIndividually_ExistingUncounted(
                             [st EXCEPT !.s = q.s],
                             committed, [list EXCEPT ![i].id = existing], i + 1)
                    ELSE LET row == [list[i] EXCEPT !.id = FreshId(q.s.tx.fps)]
                         IN FootprintsIndividually_ExistingUncounted(
                                [st EXCEPT !.s = [q.s EXCEPT !.tx.fps = @ \cup {row}],
                                           !.ins = @ + 1],
                                committed, [list EXCEPT ![i] = row], i + 1)

\* _load_digital_footprints_individually: the loop over the footprints
RECURSIVE FootprintsIndividually(_, _, _, _)
FootprintsIndividually(st, committed, list, i) ==
    IF i > Len(list) THEN [st EXCEPT !.list = list]
    ELSE LET q == Query(st.s, committed)
         IN IF ~q.ok
            THEN FootprintsIndividually(
                     [st EXCEPT !.s = q.s, !.skip = @ + 1, !.errs = @ + 1],
                     committed, list, i + 1)
            ELSE LET existing == ExistingFootprint(q.s.tx.fps, list[i])
                 IN IF existing # NoId
                    THEN FootprintsIndividually(
                             [st EXCEPT !.s = q.s, !.skip = @ + 1],
                             committed, [list EXCEPT ![i].id = existing], i + 1)
                    ELSE LET row == [list[i] EXCEPT !.id = FreshId(q.s.tx.fps)]
                         IN FootprintsIndividually(
                                [st EXCEPT !.s = [q.s EXCEPT !.tx.fps = @ \cup {row}],
                                           !.ins = @ + 1],
                                committed, [list EXCEPT ![i] = row], i + 1)

LoopStart(s) == [s |-> s, list |-> <<>>, ins |-> 0, skip |-> 0, errs |-> 0]

(* ------------------- load: identity, activity, link stages -------------- *)
Table(t, kind) ==
    CASE kind = "identity" -> t.ids
      [] kind = "activity" -> t.acts
      [] kind = "link" -> t.links

Obj(kind, row) == [kind |-> kind, row |-> row]

\* Session.bulk_save_objects(): the rows are INSERTed at once, without
\* autoflush; ok = FALSE is the IntegrityError
RECURSIVE BulkInsert(_, _, _, _)
BulkInsert(t, kind, list, i) ==
    IF i > Len(list) THEN [ok |-> TRUE, tx |-> t]
    ELSE IF ObjViolation(t, Obj(kind, list[i]))
         THEN [ok |-> FALSE, tx |-> t]
         ELSE BulkInsert(InsertObj(t, Obj(kind, list[i])), kind, list, i + 1)

\* _load_personal_identities_individually and _load_activity_logs_individually:
\* query for the row's key, skip when found, session.add() otherwise; an
\* exception of the query counts the row as skipped
RECURSIVE FactsIndividually(_, _, _, _, _)
FactsIndividually(st, committed, kind, list, i) ==
    IF i > Len(list) THEN st
    ELSE LET q == Query(st.s, committed)
         IN IF ~q.ok
            THEN FactsIndividually(
                     [st EXCEPT !.s = q.s, !.skip = @ + 1, !.errs = @ + 1],
                     committed, kind, list, i + 1)
            ELSE IF list[i] \in Table(q.s.tx, kind)
                 THEN FactsIndividually([st EXCEPT !.s = q.s, !.skip = @ + 1],
                                        committed, kind, list, i + 1)
                 ELSE FactsIndividually(
                          [st EXCEPT !.s = [q.s EXCEPT !.new = @ \cup {Obj(kind, list[i])}],
                                     !.ins = @ + 1],
                          committed, kind, list, i + 1)

\* _link_user_to_footprints_individually: as above, and a link whose footprint
\* row is not found is skipped with an error
RECURSIVE LinksIndividually(_, _, _, _)
LinksIndividually(st, committed, list, i) ==
    IF i > Len(list) THEN st
    ELSE LET q == Query(st.s, committed)
         IN IF ~q.ok
            THEN LinksIndividually(
                     [st EXCEPT !.s = q.s, !.skip = @ + 1, !.errs = @ + 1],
                     committed, list, i + 1)
            ELSE IF list[i] \in q.s.tx.links
                 THEN LinksIndividually([st EXCEPT !.s = q.s, !.skip = @ + 1],
                                        committed, list, i + 1)
                 ELSE IF list[i][2] \notin FootprintIds(q.s.tx)
                      THEN LinksIndividually(
                               [st EXCEPT !.s = q.s, !.skip = @ + 1, !.errs = @ + 1],
                               committed, list, i + 1)
                      ELSE LinksIndividually(
                               [st EXCEPT !.s = [q.s EXCEPT !.new = @ \cup {Obj("link", list[i])}],
                                          !.ins = @ + 1],
                               committed, list, i + 1)

(* ------------------- load: rows from the pending entries ----------------- *)
\* footprint_id_map of _create_*_from_pending: reference_url -> id, filled in
\* list order from the footprints that have an id (a later footprint with the
\* same reference_url overwrites an earlier one)
FootprintIdMap(list, url) ==
    LET idx == {i \in 1..Len(list) : list[i].id # NoId /\ list[i].url = url}
    IN IF idx = {} THEN NoId
       ELSE list[CHOOSE i \in idx : \A j \in idx : j <= i].id

Matched(list, pending) ==
    SelectSeq(pending, LAMBDA e : FootprintIdMap(list, e[1]) # NoId)

\* mutant of CreateFromPending: one unmatched entry drops the whole result
CreateFromPending_AllOrNothing(list, pending) ==
    IF pending = <<>> \/ list = <<>> \/ Len(Matched(list, pending)) # Len(pending)
    THEN <<>>
    ELSE [i \in 1..Len(pending) |-> <<FootprintIdMap(list, pending[i][1]), pending[i][2]>>]

\* _create_personal_identities_from_pending, _create_activity_logs_from_pending
CreateFromPending(list, pending) ==
    IF pending = <<>> \/ list = <<>> THEN <<>>
    ELSE LET m == Matched(list, pending)
         IN [i \in 1..Len(m) |-> <<FootprintIdMap(list, m[i][1]), m[i][2]>>]

\* _link_user_to_footprints: one link object per footprint that has an id
LinkObjects(uid, list) ==
    LET withId == SelectSeq(list, LAMBDA fp : fp.id # NoId)
    IN [i \in 1..Len(withId) |-> <<uid, withId[i].id>>]

(* ------------------------------ load() ---------------------------------- *)
CurSess == Sess(tx, sess_new, sess_deactive)

SetSess(s) ==
    /\ tx' = s.tx
    /\ sess_new' = s.new
    /\ sess_deactive' = s.deactive

EmptyRows == [identities |-> <<>>, activity_logs |-> <<>>]

InsertStages == {"footprints", "identities", "activities", "links"}

NoPaths == [stage \in InsertStages |-> "none"]

\* entries of one reference_url are adjacent (they come from a dict of lists)
Grouped(s) ==
    \A i, j, k \in 1..Len(s) : (i < j /\ j < k /\ s[i][1] = s[k][1]) => s[j][1] = s[i][1]

\* the footprints given to load(): none has an id yet
FootprintObjects ==
    {[id |-> NoId, url |-> p[1], media |-> p[2]] : p \in LoadPairs}

TransformationResults ==
    [new_digital_footprints : SeqsUpTo(FootprintObjects, MaxFootprints),
     pending_identities :
         {s \in SeqsUpTo(Urls \X Facets, MaxPending) : NoDup(s) /\ Grouped(s)},
     pending_activity_logs :
         {s \in SeqsUpTo(Urls \X Times, MaxPending) : NoDup(s) /\ Grouped(s)},
     processing_stats : {ZeroStats}]

\* mutant of NextStage: the activity logs are inserted before the identities
NextStage_ActivitiesFirst(stage) ==
    CASE stage = "footprints" -> "create"
      [] stage = "create" -> "activities"
      [] stage = "activities" -> "identities"
      [] stage = "identities" -> "links"
      [] stage = "links" -> "commit"
      [] stage = "commit" -> "done"

\* the order of the statements of load()'s try block
NextStage(stage) ==
    CASE stage = "footprints" -> "create"
      [] stage = "create" -> "identities"
      [] stage = "identities" -> "activities"
      [] stage = "activities" -> "links"
      [] stage = "links" -> "commit"
      [] stage = "commit" -> "done"

\* Loader.__init__
NewLoader(u) ==
    /\ pc \in {"idle", "done"}
    /\ loads < MaxLoads
    /\ loads' = loads + 1
    /\ user_id' = u
    /\ load_status' = "not_started"
    /\ load_result' = EmptyLoadResult
    /\ raised' = FALSE
    /\ tr' = EmptyResult
    /\ rows' = EmptyRows
    /\ paths' = NoPaths
    /\ db_before' = db
    /\ pc' = "constructed"
    /\ UNCHANGED <<db, tx, sess_new, sess_deactive, trackVars, resolveVars, sideVars>>

\* load(): _start_load and the opening of the session
StartLoad(input) ==
    /\ pc = "constructed"
    /\ tr' = input
    /\ load_status' = "in_progress"
    /\ db_before' = db
    /\ SetSess(Rollback(db))
    /\ pc' = "footprints"
    /\ UNCHANGED <<db, load_result, user_id, rows, raised, loads, paths, trackVars, resolveVars, sideVars>>

\* mutant of LoadFails: what was flushed before the exception is committed
LoadFails_CommitsFlushed(errs) ==
    /\ load_status' = "failed"
    /\ raised' = TRUE
    /\ pc' = "done"
    /\ db' = IF sess_deactive THEN db ELSE tx
    /\ SetSess(Rollback(IF sess_deactive THEN db ELSE tx))
    /\ load_result' = [load_result EXCEPT !.errors = @ + errs]
    /\ UNCHANGED <<user_id, tr, rows, loads, db_before, paths, trackVars, resolveVars, sideVars>>

\* the except clause of load(): the session is closed without commit,
\* _end_load(success=False), LoadError
LoadFails(errs) ==
    /\ load_status' = "failed"
    /\ raised' = TRUE
    /\ pc' = "done"
    /\ SetSess(Rollback(db))
    /\ load_result' = [load_result EXCEPT !.errors = @ + errs]
    /\ UNCHANGED <<db, user_id, tr, rows, loads, db_before, paths, trackVars, resolveVars, sideVars>>

\* _load_digital_footprints
LoadDigitalFootprints ==
    /\ pc = "footprints"
    /\ LET list == tr.new_digital_footprints
       IN IF list = <<>>
          THEN /\ pc' = NextStage(pc)
               /\ UNCHANGED <<db, tx, sess_new, sess_deactive, load_status, load_result,
                              user_id, tr, rows, raised, loads, db_before, paths, trackVars, resolveVars, sideVars>>
          ELSE \E fault \in BOOLEAN :
               IF fault THEN LoadFails(1)
               ELSE LET r == FlushFootprints(tx.fps, list, 1)
                        st == FootprintsIndividually(LoopStart(Rollback(db)), db, list, 1)
                    IN IF r.ok
                       THEN /\ tx' = [tx EXCEPT !.fps = r.fps]
                            /\ tr' = [tr EXCEPT !.new_digital_footprints = r.list]
                            /\ load_result' =
                                   [load_result EXCEPT !.footprints_inserted = Len(list)]
                            /\ paths' = [paths EXCEPT !.footprints = "bulk"]
                            /\ pc' = NextStage(pc)
                            /\ UNCHANGED <<db, sess_new, sess_deactive, load_status,
                                           user_id, rows, raised, loads, db_before, trackVars, resolveVars, sideVars>>
                       ELSE /\ SetSess(st.s)
                            /\ tr' = [tr EXCEPT !.new_digital_footprints = st.list]
                            /\ load_result' =
                                   [load_result EXCEPT !.footprints_inserted = st.ins,
                                                       !.footprints_skipped = st.skip,
                                                       !.errors = @ + st.errs]
                            /\ paths' = [paths EXCEPT !.footprints = "individual"]
                            /\ pc' = NextStage(pc)
                            /\ UNCHANGED <<db, load_status, user_id, rows, raised,
                                           loads, db_before, trackVars, resolveVars, sideVars>>

\* _create_activity_logs_from_pending and _create_personal_identities_from_pending
CreateFromPendingStage ==
    /\ pc = "create"
    /\ rows' = [identities |->
                    CreateFromPending(tr.new_digital_footprints, tr.pending_identities),
                activity_logs |->
                    CreateFromPending(tr.new_digital_footprints, tr.pending_activity_logs)]
    /\ pc' = NextStage(pc)
    /\ UNCHANGED <<db, tx, sess_new, sess_deactive, load_status, load_result,
                   user_id, tr, raised, loads, db_before, paths, trackVars, resolveVars, sideVars>>

\* the common shape of _load_personal_identities, _load_activity_logs and the
\* insert of _link_user_to_footprints
BulkStage(kind, list, st, insField, skipField) ==
    IF list = <<>>
    THEN /\ pc' = NextStage(pc)
         /\ UNCHANGED <<db, tx, sess_new, sess_deactive, load_status, load_result,
                        user_id, tr, rows, raised, loads, db_before, paths, trackVars, resolveVars, sideVars>>
    ELSE \E fault \in BOOLEAN :
         IF fault \/ sess_deactive THEN LoadFails(1)
         ELSE LET r == BulkInsert(tx, kind, list, 1)
              IN IF r.ok
                 THEN /\ tx' = r.tx
                      /\ load_result' = [load_result EXCEPT ![insField] = Len(list)]
                      /\ paths' = [paths EXCEPT ![pc] = "bulk"]
                      /\ pc' = NextStage(pc)
                      /\ UNCHANGED <<db, sess_new, sess_deactive, load_status,
                                     user_id, tr, rows, raised, loads, db_before, trackVars, resolveVars, sideVars>>
                 ELSE /\ SetSess(st.s)
                      /\ load_result' =
                             IF skipField = "none"
                             THEN [load_result EXCEPT ![insField] = st.ins,
                                                      !.errors = @ + st.errs]
                             ELSE [load_result EXCEPT ![insField] = st.ins,
                                                      ![skipField] = st.skip,
                                                      !.errors = @ + st.errs]
                      /\ paths' = [paths EXCEPT ![pc] = "individual"]
                      /\ pc' = NextStage(pc)
                      /\ UNCHANGED <<db, load_status, user_id, tr, rows, raised,
                                     loads, db_before, trackVars, resolveVars, sideVars>>

\* _load_personal_identities
LoadPersonalIdentities ==
    /\ pc = "identities"
    /\ BulkStage("identity", rows.identities,
                 FactsIndividually(LoopStart(Rollback(db)), db, "identity",
                                   rows.identities, 1),
                 "identities_inserted", "identities_skipped")

\* _load_activity_logs
LoadActivityLogs ==
    /\ pc = "activities"
    /\ BulkStage("activity", rows.activity_logs,
                 FactsIndividually(LoopStart(Rollback(db)), db, "activity",
                                   rows.activity_logs, 1),
                 "activity_logs_inserted", "activity_logs_skipped")

\* _link_user_to_footprints
LinkUserToFootprints ==
    /\ pc = "links"
    /\ LET links == LinkObjects(user_id, tr.new_digital_footprints)
       IN BulkStage("link", links,
                    LinksIndividually(LoopStart(Rollback(db)), db, links, 1),
                    "user_footprint_links_inserted", "none")

\* session.commit() and _end_load(success=True)
Commit ==
    /\ pc = "commit"
    /\ \E fault \in BOOLEAN :
       LET f == Query(CurSess, db)
       IN IF fault \/ ~f.ok THEN LoadFails(0)
          ELSE /\ db' = f.s.tx
               /\ SetSess(f.s)
               /\ load_status' = "completed"
               /\ pc' = NextStage(pc)
               /\ UNCHANGED <<load_result, user_id, tr, rows, raised, loads,
                              db_before, paths, trackVars, resolveVars, sideVars>>

\* load_summary(): the totals and the success flag read from the loader
LoadSummary_SuccessUnlessFailed ==
    [load_status |-> load_status,
     total_records_inserted |->
         load_result.footprints_inserted + load_result.identities_inserted
         + load_result.activity_logs_inserted
         + load_result.user_footprint_links_inserted,
     total_records_skipped |->
         load_result.footprints_skipped + load_result.identities_skipped
         + load_result.activity_logs_skipped,
     error_count |-> load_result.errors,
     success |-> load_status # "failed"]

LoadSummary ==
    [load_status |-> load_status,
     total_records_inserted |->
         load_result.footprints_inserted + load_result.identities_inserted
         + load_result.activity_logs_inserted
         + load_result.user_footprint_links_inserted,
     total_records_skipped |->
         load_result.footprints_skipped + load_result.identities_skipped
         + load_result.activity_logs_skipped,
     error_count |-> load_result.errors,
     success |-> load_status = "completed"]

Init ==
    /\ db = EmptyTables
    /\ tx = EmptyTables
    /\ sess_new = {}
    /\ sess_deactive = FALSE
    /\ pc = "idle"
    /\ load_status = "not_started"
    /\ load_result = EmptyLoadResult
    /\ user_id = 1
    /\ tr = EmptyResult
    /\ rows = EmptyRows
    /\ raised = FALSE
    /\ loads = 0
    /\ db_before = EmptyTables
    /\ paths = NoPaths
    /\ tracked = NothingTracked
    /\ last_call = NoCall
    /\ now = 1
    /\ cache = {}
    /\ items = <<>>
    /\ pos = 0
    /\ batch = <<>>
    /\ outcomes = <<>>
    /\ run = NoRun
    /\ resolving = NoResolving
    /\ app = NoApplication
    /\ chunking = NoChunking
    /\ merging = NoMerging
    /\ ex = NoExtraction

Next ==
    \/ \E u \in Users : NewLoader(u)
    \/ \E input \in TransformationResults : StartLoad(input)
    \/ LoadDigitalFootprints
    \/ CreateFromPendingStage
    \/ LoadPersonalIdentities
    \/ LoadActivityLogs
    \/ LinkUserToFootprints
    \/ Commit

Spec == Init /\ [][Next]_vars

(* ------------------- pending facts of the transformers ------------------ *)
\* result.pending_identities[reference_url], result.pending_activity_logs[...]
ListUnder(pending, url) == SelectSeq(pending, LAMBDA e : e[1] = url)

\* list.append under the key reference_url (a new key goes last in the dict)
AppendUnder(pending, url, x) ==
    LET at == {i \in 1..Len(pending) : pending[i][1] = url}
        last == IF at = {} THEN Len(pending)
                ELSE CHOOSE i \in at : \A j \in at : j <= i
    IN SubSeq(pending, 1, last) \o <<<<url, x>>>> \o SubSeq(pending, last + 1, Len(pending))

\* the body shared by _track_pending_identity and _track_pending_activity_log
TrackPending(pending, url, x) ==
    IF \E i \in 1..Len(pending) : pending[i] = <<url, x>>
    THEN [ret |-> FALSE, pending |-> pending]
    ELSE [ret |-> TRUE, pending |-> AppendUnder(pending, url, x)]

\* what a caller of _track_pending_* observes; "repeated" tells whether the
\* same footprint was passed with the same facet or timestamp before
CallRecord(op, fp, x, before, r, seen) ==
    [op |-> op, url |-> fp.url, media |-> fp.media, arg |-> x, ret |-> r.ret,
     repeated |-> <<fp.url, fp.media, x>> \in seen,
     len_before |-> Len(ListUnder(before, fp.url)),
     len_after |-> Len(ListUnder(r.pending, fp.url))]

\* a transformer appends a footprint the resolver returned as new
AppendNewFootprint(fp) ==
    /\ pc = "transform"
    /\ Len(tr.new_digital_footprints) < MaxFootprints
    /\ tr' = [tr EXCEPT !.new_digital_footprints = Append(@, fp)]
    /\ UNCHANGED <<db, tx, sess_new, sess_deactive, pc, load_status, load_result,
                   user_id, rows, raised, loads, db_before, paths, trackVars, resolveVars, sideVars>>

\* _track_pending_identity(result, digital_footprint, identity_type)
TrackPendingIdentity(fp, facet) ==
    /\ pc = "transform"
    /\ LET r == TrackPending(tr.pending_identities, fp.url, facet)
       IN /\ Len(r.pending) <= MaxPending
          /\ tr' = [tr EXCEPT !.pending_identities = r.pending]
          /\ last_call' = CallRecord("identity", fp, facet, tr.pending_identities, r,
                                     tracked.identities)
    /\ tracked' = [tracked EXCEPT !.identities = @ \cup {<<fp.url, fp.media, facet>>}]
    /\ UNCHANGED <<db, tx, sess_new, sess_deactive, pc, load_status, load_result,
                   user_id, rows, raised, loads, db_before, paths, now, resolveVars, sideVars>>

\* _track_pending_activity_log(result, digital_footprint, timestamp); without
\* a timestamp the current time is taken
TrackPendingActivityLog(fp, timestamp) ==
    /\ pc = "transform"
    /\ LET ts == IF timestamp = NoTimestamp THEN now ELSE timestamp
           r == TrackPending(tr.pending_activity_logs, fp.url, ts)
       IN /\ Len(r.pending) <= MaxPending
          /\ tr' = [tr EXCEPT !.pending_activity_logs = r.pending]
          /\ last_call' = CallRecord("activity", fp, ts, tr.pending_activity_logs, r,
                                     tracked.activity_logs)
          /\ tracked' = [tracked EXCEPT !.activity_logs = @ \cup {<<fp.url, fp.media, ts>>}]
    /\ UNCHANGED <<db, tx, sess_new, sess_deactive, pc, load_status, load_result,
                   user_id, rows, raised, loads, db_before, paths, now, resolveVars, sideVars>>

\* time passes between two readings of datetime.now()
Tick ==
    /\ pc = "transform"
    /\ now < MaxClock
    /\ now' = now + 1
    /\ UNCHANGED <<db, tx, sess_new, sess_deactive, pc, load_status, load_result,
                   user_id, tr, rows, raised, loads, db_before, paths,
                   tracked, last_call, resolveVars, sideVars>>

\* run_scan: Loader(user_id).load(transformation_result)
LoadTransformed ==
    /\ pc = "transform"
    /\ loads' = loads + 1
    /\ load_status' = "in_progress"
    /\ db_before' = db
    /\ SetSess(Rollback(db))
    /\ pc' = "footprints"
    /\ UNCHANGED <<db, load_result, user_id, tr, rows, raised, paths,
                   trackVars, resolveVars, sideVars>>

InitTrack ==
    /\ db = EmptyTables
    /\ tx = EmptyTables
    /\ sess_new = {}
    /\ sess_deactive = FALSE
    /\ pc = "transform"
    /\ load_status = "not_started"
    /\ load_result = EmptyLoadResult
    /\ user_id = 1
    /\ tr = EmptyResult
    /\ rows = EmptyRows
    /\ raised = FALSE
    /\ loads = 0
    /\ db_before = EmptyTables
    /\ paths = NoPaths
    /\ tracked = NothingTracked
    /\ last_call = NoCall
    /\ now = 1
    /\ cache = {}
    /\ items = <<>>
    /\ pos = 0
    /\ batch = <<>>
    /\ outcomes = <<>>
    /\ run = NoRun
    /\ resolving = NoResolving
    /\ app = NoApplication
    /\ chunking = NoChunking
    /\ merging = NoMerging
    /\ ex = NoExtraction

NextTrack ==
    \/ \E fp \in FootprintObjects : AppendNewFootprint(fp)
    \/ \E fp \in FootprintObjects, facet \in Facets : TrackPendingIdentity(fp, facet)
    \/ \E fp \in FootprintObjects, ts \in Timestamps : TrackPendingActivityLog(fp, ts)
    \/ Tick
    \/ LoadTransformed
    \/ LoadDigitalFootprints
    \/ CreateFromPendingStage
    \/ LoadPersonalIdentities
    \/ LoadActivityLogs
    \/ LinkUserToFootprints
    \/ Commit

SpecTrack == InitTrack /\ [][NextTrack]_vars

(* ------------------------- the transformation run ----------------------- *)
Min(a, b) == IF a <= b THEN a ELSE b

Max(a, b) == IF a >= b THEN a ELSE b

\* _chunk_data: the number of slices data[i:i + chunk_size]
NumChunks(total_items, chunk_size) == (total_items + chunk_size - 1) \div chunk_size

\* _construct_media_filepath: no path for a text footprint, the mock image
\* file for an image whatever its URL
MediaFilepath(type) == IF type = "text" THEN NoMedia ELSE "m1"

\* RedisManager.get_digital_footprint: the entry under the key of the pair
CachedFootprint(c, url, media) == {r \in c : r.url = url /\ r.media = media}

\* RedisManager has no get_source_by_url: the lookup of the source ends in an
\* AttributeError before any footprint is built
GetOrCreateSourceByUrl(url) == [raised |-> TRUE]

\* mutant of GetOrCreateDigitalFootprint: a footprint found nowhere is written
\* to the cache before the source is looked up
GetOrCreateDigitalFootprint_CachesNew(c, fps, url, media, get_fails, set_fails) ==
    LET probe == [id |-> NoId, url |-> url, media |-> media]
        hit == CachedFootprint(c, url, media)
        id == ExistingFootprint(fps, probe)
        row == [id |-> id, url |-> url, media |-> media]
    IN IF get_fails
       THEN [how |-> "cache_error", is_new |-> FALSE, fp |-> probe, cache |-> c]
       ELSE IF hit # {}
       THEN [how |-> "cached", is_new |-> FALSE, fp |-> CHOOSE r \in hit : TRUE,
             cache |-> c]
       ELSE IF id # NoId
       THEN [how |-> "stored", is_new |-> FALSE, fp |-> row,
             cache |-> IF set_fails THEN c ELSE c \cup {row}]
       ELSE [how |-> "attribute_error", is_new |-> FALSE, fp |-> probe,
             cache |-> c \cup {probe}]

\* _get_or_create_digital_footprint: cache, then storage, then a new object
GetOrCreateDigitalFootprint(c, fps, url, media, get_fails, set_fails) ==
    LET probe == [id |-> NoId, url |-> url, media |-> media]
        hit == CachedFootprint(c, url, media)
        id == ExistingFootprint(fps, probe)
        row == [id |-> id, url |-> url, media |-> media]
    IN IF get_fails
       THEN [how |-> "cache_error", is_new |-> FALSE, fp |-> probe, cache |-> c]
       ELSE IF hit # {}
       THEN [how |-> "cached", is_new |-> FALSE, fp |-> CHOOSE r \in hit : TRUE,
             cache |-> c]
       ELSE IF id # NoId
       THEN [how |-> "stored", is_new |-> FALSE, fp |-> row,
             cache |-> IF set_fails THEN c ELSE c \cup {row}]
       ELSE IF GetOrCreateSourceByUrl(url).raised
       THEN [how |-> "attribute_error", is_new |-> FALSE, fp |-> probe, cache |-> c]
       ELSE [how |-> "new", is_new |-> TRUE, fp |-> probe, cache |-> c]

Raised(r) == r.how \in {"cache_error", "attribute_error"}

\* mutant of ItemResult: footprints_found is counted before the resolver is
\* called
ItemResult_CountsBeforeResolve(r, detected, ts, face) ==
    IF Raised(r)
    THEN [EmptyResult EXCEPT !.processing_stats.items_processed = 1,
                             !.processing_stats.footprints_found = 1]
    ELSE [new_digital_footprints |-> IF r.is_new THEN <<r.fp>> ELSE <<>>,
          pending_identities |->
              [k \in 1..Len(detected) |-> <<r.fp.url, detected[k]>>],
          pending_activity_logs |-> <<<<r.fp.url, ts>>>>,
          processing_stats |->
              [ZeroStats EXCEPT !.items_processed = 1,
                                !.footprints_found = 1,
                                !.new_footprints = IF r.is_new THEN 1 ELSE 0,
                                !.existing_footprints = IF r.is_new THEN 0 ELSE 1,
                                !.identities_detected = Len(detected),
                                !.media_files_processed = IF r.fp.media # NoMedia THEN 1 ELSE 0,
                                !.face_matches_found =
                                    IF r.fp.media # NoMedia /\ face THEN 1 ELSE 0]]

\* _process_search_result, _process_profile: the TransformationResult of one
\* record, "detected" being set(identities_detected) in the order of its
\* iteration and "face" the face_match_found of the media analysis; an
\* exception of the resolver leaves the result with items_processed alone
ItemResult(r, detected, ts, face) ==
    IF Raised(r) THEN [EmptyResult EXCEPT !.processing_stats.items_processed = 1]
    ELSE [new_digital_footprints |-> IF r.is_new THEN <<r.fp>> ELSE <<>>,
          pending_identities |->
              [k \in 1..Len(detected) |-> <<r.fp.url, detected[k]>>],
          pending_activity_logs |-> <<<<r.fp.url, ts>>>>,
          processing_stats |->
              [ZeroStats EXCEPT !.items_processed = 1,
                                !.footprints_found = 1,
                                !.new_footprints = IF r.is_new THEN 1 ELSE 0,
                                !.existing_footprints = IF r.is_new THEN 0 ELSE 1,
                                !.identities_detected = Len(detected),
                                !.media_files_processed = IF r.fp.media # NoMedia THEN 1 ELSE 0,
                                !.face_matches_found =
                                    IF r.fp.media # NoMedia /\ face THEN 1 ELSE 0]]

DetectedIdentities ==
    {s \in SeqsUpTo(Facets, Cardinality(Facets)) : NoDup(s)}

KeyBefore(q, a, b) ==
    \E i \in 1..Len(q) : /\ q[i][1] = a
                         /\ \A j \in 1..i : q[j][1] # b

\* mutant of MergePending: the list of a shared key is replaced, not united
MergePending_Overwrite(main, add) ==
    LET kept == {e \in Range(main) : \A a \in Range(add) : a[1] # e[1]}
        all == kept \cup Range(add)
    IN {s \in [1..Cardinality(all) -> all] : Range(s) = all /\ Grouped(s)}

\* the merge of two pending dicts: keys in order of first appearance, each
\* list rebuilt by list(set(...)), whose order is not fixed
MergePending(main, add) ==
    LET all == Range(main) \cup Range(add)
        q == main \o add
    IN {s \in [1..Cardinality(all) -> all] :
            /\ Range(s) = all
            /\ Grouped(s)
            /\ \A a, b \in {e[1] : e \in all} : KeyBefore(q, a, b) => KeyBefore(s, a, b)}

\* main_result.processing_stats[key] += value, for every key
AddStats(main, add) == [k \in DOMAIN main |-> main[k] + add[k]]

\* the merge block shared by _process_batch, _process_all_batches and
\* UnifiedTransformer._merge_results: every result it can leave in main
MergeInto(main, add) ==
    {[new_digital_footprints |-> main.new_digital_footprints \o add.new_digital_footprints,
      pending_identities |-> ids,
      pending_activity_logs |-> acts,
      processing_stats |-> AddStats(main.processing_stats, add.processing_stats)] :
        ids \in MergePending(main.pending_identities, add.pending_identities),
        acts \in MergePending(main.pending_activity_logs, add.pending_activity_logs)}

\* every result the merge loop can leave after merging the results in order
RECURSIVE MergeAll(_, _)
MergeAll(main, results) ==
    IF results = <<>> THEN {main}
    ELSE UNION {MergeAll(m, Tail(results)) : m \in MergeInto(main, Head(results))}

Transformers == {"social", "search"}

\* _chunk_data: the chunk that holds record i
ChunkOf(i) == ((i - 1) \div run.chunk_size) + 1

ChunkItems(c) == {i \in 1..Len(items) : ChunkOf(i) = c}

\* the event loop runs one task at a time and takes the tasks in the order of
\* their creation: the chunk task that runs is the first that has not ended
CurrentChunk ==
    {c \in 1..Len(batch) :
        /\ batch[c].state \in {"created", "running"}
        /\ \A d \in 1..(c - 1) : batch[d].state \in {"done", "raised"}}

Finished(i) == outcomes[i].state \in {"done", "raised"}

\* mutant of NextItem: any record of the chunk that has not been taken
NextItem_Any(c) ==
    {i \in ChunkItems(c) : outcomes[i].state = "waiting"}

\* for item in items: the record the loop of _process_batch takes next
NextItem(c) ==
    {i \in ChunkItems(c) :
        /\ outcomes[i].state = "waiting"
        /\ \A k \in ChunkItems(c) : k < i => outcomes[k].state # "waiting"}

\* mutant of AfterItemRaises: the loop is left and the batch returns
AfterItemRaises_Break(c) == [batch[c] EXCEPT !.state = "done"]

\* except Exception ... continue: the batch goes on with the next record
AfterItemRaises(c) == batch[c]

\* mutant of Gathered: the merge loop stops at the first exception
Gathered_UntilException ==
    {c \in 1..Len(batch) : \A d \in 1..c : batch[d].state = "done"}

\* the merge loop of _process_all_batches skips the exceptions among the
\* gathered batch results
Gathered == {c \in 1..Len(batch) : batch[c].state = "done"}

\* batch_results without the entries the merge loop skips
RECURSIVE BatchResults(_, _)
BatchResults(kept, c) ==
    IF c > Len(batch) THEN <<>>
    ELSE (IF c \in kept THEN <<batch[c].result>> ELSE <<>>) \o BatchResults(kept, c + 1)

\* SocialMediaTransformer._process_item raises for a tag other than profile
\* and post; SearchEngineTransformer._process_item reads no tag
ItemRaises(it) == run.runner = "social" /\ it.item_type \notin {"profile", "post"}

\* a task of UnifiedTransformer._async_transform_data takes its first turn: it
\* raises, or returns at once for want of data, or reaches the gather of
\* _process_all_batches with one task created per chunk
StartTransformer(t) ==
    /\ pc = "transform"
    /\ run[t] = "created"
    /\ t = "search" => run.social # "created"
    /\ \E fails \in BOOLEAN :
          IF fails
          THEN /\ run' = [run EXCEPT ![t] = "raised"]
               /\ batch' = batch
          ELSE IF t # run.runner \/ items = <<>>
          THEN /\ run' = [run EXCEPT ![t] = "done"]
               /\ batch' = batch
          ELSE /\ run' = [run EXCEPT ![t] = "gather"]
               /\ batch' = [c \in 1..NumChunks(Len(items), run.chunk_size) |->
                               [state |-> "created", result |-> EmptyResult]]
    /\ UNCHANGED <<loadVars, trackVars, cache, items, pos, outcomes, sideVars>>

\* _process_batch: the loop takes the next record of the chunk
StartItem ==
    /\ pc = "transform"
    /\ run.search # "created"
    /\ \A k \in 1..Len(items) : outcomes[k].state # "running"
    /\ \E c \in CurrentChunk : \E i \in NextItem(c) :
          /\ outcomes' = [outcomes EXCEPT ![i].state = "running"]
          /\ batch' = [batch EXCEPT ![c].state = "running"]
    /\ UNCHANGED <<loadVars, trackVars, cache, items, pos, run, sideVars>>

\* one turn of the loop of _process_batch ends: _process_item has raised and
\* the record is skipped, or its result is merged into the result of the batch
ProcessItem ==
    /\ pc = "transform"
    /\ \E i \in 1..Len(items) :
          /\ outcomes[i].state = "running"
          /\ LET it == items[i]
                 c == ChunkOf(i)
             IN IF ItemRaises(it)
                THEN /\ outcomes' = [outcomes EXCEPT ![i].state = "raised"]
                     /\ batch' = [batch EXCEPT ![c] = AfterItemRaises(c)]
                     /\ cache' = cache
                ELSE \E get_fails, set_fails, face \in BOOLEAN, detected \in DetectedIdentities :
                        LET r == GetOrCreateDigitalFootprint(cache, db.fps, it.url,
                                     MediaFilepath(it.type), get_fails, set_fails)
                            res == ItemResult(r, detected, now, face)
                        IN /\ face => MediaFilepath(it.type) # NoMedia
                           /\ \E merged \in MergeInto(batch[c].result, res) :
                                 batch' = [batch EXCEPT ![c].result = merged]
                           /\ cache' = r.cache
                           /\ outcomes' = [outcomes EXCEPT ![i] =
                                  [state |-> "done", url |-> it.url,
                                   media |-> MediaFilepath(it.type),
                                   how |-> r.how, is_new |-> r.is_new, result |-> res]]
    /\ pos' = pos + 1
    /\ UNCHANGED <<loadVars, trackVars, items, run, sideVars>>

\* _process_batch: the loop is over and the batch returns its result
BatchReturns ==
    /\ pc = "transform"
    /\ \E c \in CurrentChunk :
          /\ batch[c].state = "running"
          /\ \A i \in ChunkItems(c) : Finished(i)
          /\ batch' = [batch EXCEPT ![c].state = "done"]
    /\ UNCHANGED <<loadVars, trackVars, cache, items, pos, outcomes, run, sideVars>>

\* a chunk task ends with an exception that no handler of _process_batch
\* catches: what it had merged is lost with it
BatchRaises ==
    /\ pc = "transform"
    /\ run.search # "created"
    /\ \A k \in 1..Len(items) : outcomes[k].state # "running"
    /\ \E c \in CurrentChunk :
          batch' = [batch EXCEPT ![c].state = "raised"]
    /\ UNCHANGED <<loadVars, trackVars, cache, items, pos, outcomes, run, sideVars>>

\* _process_all_batches: gather has returned the result of every chunk task;
\* the results that are no exceptions are merged in the order of the chunks
MergeResults ==
    /\ pc = "transform"
    /\ \E t \in Transformers :
          /\ run[t] = "gather"
          /\ \A c \in 1..Len(batch) : batch[c].state \in {"done", "raised"}
          /\ \E main \in MergeAll(EmptyResult, BatchResults(Gathered, 1)) :
                run' = [run EXCEPT ![t] = "done", !.result = main]
    /\ UNCHANGED <<loadVars, trackVars, cache, items, pos, batch, outcomes, sideVars>>

\* UnifiedTransformer._async_transform_data: gather has returned for both
\* tasks; the results that are no exceptions are merged, social media first
MergeTransformers ==
    /\ pc = "transform"
    /\ \A t \in Transformers : run[t] \in {"done", "raised"}
    /\ LET returned == IF run[run.runner] = "done" THEN <<run.result>> ELSE <<>>
           empty == IF run.runner = "social"
                    THEN IF run.search = "done" THEN <<EmptyResult>> ELSE <<>>
                    ELSE IF run.social = "done" THEN <<EmptyResult>> ELSE <<>>
           results == IF run.runner = "social" THEN returned \o empty ELSE empty \o returned
       IN tr' \in MergeAll(EmptyResult, results)
    /\ pc' = "transformed"
    /\ UNCHANGED <<db, tx, sess_new, sess_deactive, load_status, load_result,
                   user_id, rows, raised, loads, db_before, paths, trackVars,
                   resolveVars, sideVars>>

\* time passes between two records
TickTransform ==
    /\ pc = "transform"
    /\ pos < Len(items)
    /\ now < MaxClock
    /\ now' = now + 1
    /\ UNCHANGED <<loadVars, tracked, last_call, resolveVars, sideVars>>

\* the results of the records in S, in list order
RECURSIVE ResultsOf(_, _)
ResultsOf(S, i) ==
    IF i > Len(outcomes) THEN <<>>
    ELSE (IF i \in S THEN <<outcomes[i].result>> ELSE <<>>) \o ResultsOf(S, i + 1)

Processed(S) == {i \in S : outcomes[i].state = "done"}

NoTaskRaised ==
    /\ \A t \in Transformers : run[t] = "done"
    /\ \A c \in 1..Len(batch) : batch[c].state = "done"

\* the records whose results reach the merged result: those processed in a
\* chunk task that returned, of a transformer task that returned
Contributing ==
    IF run[run.runner] = "done"
    THEN Processed(UNION {ChunkItems(c) : c \in {c \in 1..Len(batch) : batch[c].state = "done"}})
    ELSE {}

\* storage as earlier loads can have left it
StoredBefore ==
    {EmptyTables,
     [fps |-> {[id |-> 1, url |-> "u1", media |-> "m1"]}, ids |-> {}, acts |-> {},
      links |-> {<<1, 1>>}]}

ItemTypes == {"profile", "story"}

\* the records handed to _process_all_batches
ItemLists ==
    SeqsUpTo([url : Urls, type : FootprintTypes, item_type : ItemTypes], MaxItems)

InitTransform ==
    /\ db \in StoredBefore
    /\ tx = db
    /\ sess_new = {}
    /\ sess_deactive = FALSE
    /\ pc = "transform"
    /\ load_status = "not_started"
    /\ load_result = EmptyLoadResult
    /\ user_id = 1
    /\ tr = EmptyResult
    /\ rows = EmptyRows
    /\ raised = FALSE
    /\ loads = 0
    /\ db_before = db
    /\ paths = NoPaths
    /\ tracked = NothingTracked
    /\ last_call = NoCall
    /\ now = 1
    /\ cache \in SUBSET db.fps
    /\ items \in ItemLists
    /\ pos = 0
    /\ batch = <<>>
    /\ outcomes = [i \in 1..Len(items) |->
                      [state |-> "waiting", url |-> items[i].url,
                       media |-> MediaFilepath(items[i].type),
                       how |-> "none", is_new |-> FALSE, result |-> EmptyResult]]
    /\ \E runner \in Transformers, chunk_size \in 1..Max(1, Len(items)) :
          run = [runner |-> runner, chunk_size |-> chunk_size,
                 social |-> "created", search |-> "created", result |-> EmptyResult]
    /\ resolving = NoResolving
    /\ app = NoApplication
    /\ chunking = NoChunking
    /\ merging = NoMerging
    /\ ex = NoExtraction

NextTransform ==
    \/ \E t \in Transformers : StartTransformer(t)
    \/ StartItem
    \/ ProcessItem
    \/ BatchReturns
    \/ BatchRaises
    \/ MergeResults
    \/ MergeTransformers
    \/ TickTransform

SpecTransform == InitTransform /\ [][NextTransform]_vars

(* ------------------------- merging in any order ------------------------- *)
MaxParts == 3

MergeTimes == {1, 2}

\* the results handed to a merge, of chunks or of transformers: each the
\* result of one record
PartResults ==
    {[new_digital_footprints |-> fps,
      pending_identities |-> ids,
      pending_activity_logs |-> acts,
      processing_stats |-> [ZeroStats EXCEPT !.items_processed = 1,
                                             !.new_footprints = Len(fps),
                                             !.identities_detected = Len(ids)]] :
        fps \in SeqsUpTo({[id |-> NoId, url |-> "u1", media |-> "m1"]}, 1),
        ids \in SeqsUpTo(Urls \X Facets, 1),
        acts \in SeqsUpTo({"u1"} \X MergeTimes, 1)}

RECURSIVE SumStats(_, _)
SumStats(parts, i) ==
    IF i > Len(parts) THEN ZeroStats
    ELSE AddStats(parts[i].processing_stats, SumStats(parts, i + 1))

\* what a sequence of results holds together: the counters, the facets and
\* timestamps per reference_url, and how often each footprint occurs
Holdings(parts) ==
    [stats |-> SumStats(parts, 1),
     identities |-> UNION {Range(parts[i].pending_identities) : i \in 1..Len(parts)},
     timestamps |-> UNION {Range(parts[i].pending_activity_logs) : i \in 1..Len(parts)},
     footprints |->
         LET at(fp) == UNION {{<<i, k>> : k \in {k \in 1..Len(parts[i].new_digital_footprints) :
                                              parts[i].new_digital_footprints[k] = fp}} :
                              i \in 1..Len(parts)}
         IN {<<fp, Cardinality(at(fp))>> :
                fp \in UNION {Range(parts[i].new_digital_footprints) : i \in 1..Len(parts)}}]

RemoveAt(q, j) == SubSeq(q, 1, j - 1) \o SubSeq(q, j + 1, Len(q))

\* one merge step: result j is merged into result i, whatever their places
MergeTwo(i, j) ==
    /\ i # j
    /\ \E merged \in MergeInto(merging.parts[i], merging.parts[j]) :
          merging' = [merging EXCEPT !.parts = RemoveAt([@ EXCEPT ![i] = merged], j)]
    /\ UNCHANGED <<loadVars, trackVars, resolveVars, chunking, ex, callVars>>

InitMerge ==
    /\ db = EmptyTables
    /\ tx = EmptyTables
    /\ sess_new = {}
    /\ sess_deactive = FALSE
    /\ pc = "idle"
    /\ load_status = "not_started"
    /\ load_result = EmptyLoadResult
    /\ user_id = 1
    /\ tr = EmptyResult
    /\ rows = EmptyRows
    /\ raised = FALSE
    /\ loads = 0
    /\ db_before = EmptyTables
    /\ paths = NoPaths
    /\ tracked = NothingTracked
    /\ last_call = NoCall
    /\ now = 1
    /\ cache = {}
    /\ items = <<>>
    /\ pos = 0
    /\ batch = <<>>
    /\ outcomes = <<>>
    /\ run = NoRun
    /\ resolving = NoResolving
    /\ app = NoApplication
    /\ chunking = NoChunking
    /\ \E parts \in SeqsUpTo(PartResults, MaxParts) :
          /\ Len(parts) >= 2
          /\ merging = [parts |-> parts, before |-> Holdings(parts)]
    /\ ex = NoExtraction

NextMerge ==
    \E i, j \in 1..Len(merging.parts) : MergeTwo(i, j)

SpecMerge == InitMerge /\ [][NextMerge]_vars

(* --------------------------- the chunk launcher ------------------------- *)
\* mutant of CalculateChunkSize: the upper cap is left out
CalculateChunkSize_NoCap(total_items, cpu_count, fails) ==
    LET cpus == IF cpu_count = NoCpuCount THEN DefaultCpuCount ELSE cpu_count
    IN Max(MinChunkSize, total_items \div Min(cpus, MaxConcurrentBatches))

\* _calculate_chunk_size; "fails" is the bare except of the method
CalculateChunkSize(total_items, cpu_count, fails) ==
    IF fails
    THEN IF total_items < FallbackThreshold THEN MinChunkSize ELSE FallbackChunkSize
    ELSE LET cpus == IF cpu_count = NoCpuCount THEN DefaultCpuCount ELSE cpu_count
             optimal_chunks == Min(cpus, MaxConcurrentBatches)
             calculated_size == Max(MinChunkSize, total_items \div optimal_chunks)
         IN Min(MaxChunkSize, calculated_size)

\* len(_chunk_data(data, chunk_size)): one chunk per start index 0, size, 2 size, ...
\* _process_all_batches: chunk size and the chunks
CutIntoChunks ==
    /\ chunking.pc = "start"
    /\ LET size == CalculateChunkSize(chunking.total_items, chunking.cpu_count,
                                      chunking.fails)
       IN chunking' = [chunking EXCEPT !.pc = "launching",
                                       !.chunk_size = size,
                                       !.chunks = NumChunks(chunking.total_items, size)]
    /\ UNCHANGED <<loadVars, trackVars, resolveVars, merging, ex, callVars>>

\* one turn of the loop over the chunks: asyncio.create_task
CreateChunkTask ==
    /\ chunking.pc = "launching"
    /\ chunking.launched < chunking.chunks
    /\ chunking' = [chunking EXCEPT !.launched = @ + 1]
    /\ UNCHANGED <<loadVars, trackVars, resolveVars, merging, ex, callVars>>

\* await asyncio.gather(*batch_tasks): only now the event loop runs the tasks
AwaitGather ==
    /\ chunking.pc = "launching"
    /\ chunking.launched = chunking.chunks
    /\ chunking' = [chunking EXCEPT !.pc = "gathering"]
    /\ UNCHANGED <<loadVars, trackVars, resolveVars, merging, ex, callVars>>

\* a chunk task runs to its end
ChunkTaskEnds ==
    /\ chunking.pc = "gathering"
    /\ chunking.finished < chunking.launched
    /\ chunking' = [chunking EXCEPT !.finished = @ + 1]
    /\ UNCHANGED <<loadVars, trackVars, resolveVars, merging, ex, callVars>>

\* gather returns once every task has ended
GatherReturns ==
    /\ chunking.pc = "gathering"
    /\ chunking.finished = chunking.launched
    /\ chunking' = [chunking EXCEPT !.pc = "merged"]
    /\ UNCHANGED <<loadVars, trackVars, resolveVars, merging, ex, callVars>>

InitChunks ==
    /\ db = EmptyTables
    /\ tx = EmptyTables
    /\ sess_new = {}
    /\ sess_deactive = FALSE
    /\ pc = "idle"
    /\ load_status = "not_started"
    /\ load_result = EmptyLoadResult
    /\ user_id = 1
    /\ tr = EmptyResult
    /\ rows = EmptyRows
    /\ raised = FALSE
    /\ loads = 0
    /\ db_before = EmptyTables
    /\ paths = NoPaths
    /\ tracked = NothingTracked
    /\ last_call = NoCall
    /\ now = 1
    /\ cache = {}
    /\ items = <<>>
    /\ pos = 0
    /\ batch = <<>>
    /\ outcomes = <<>>
    /\ run = NoRun
    /\ resolving = NoResolving
    /\ app = NoApplication
    /\ chunking \in [pc : {"start"}, total_items : 1..MaxTotal, cpu_count : CpuCounts,
                     fails : BOOLEAN, chunk_size : {0}, chunks : {0},
                     launched : {0}, finished : {0}]
    /\ merging = NoMerging
    /\ ex = NoExtraction

NextChunks ==
    \/ CutIntoChunks
    \/ CreateChunkTask
    \/ AwaitGather
    \/ ChunkTaskEnds
    \/ GatherReturns

SpecChunks == InitChunks /\ [][NextChunks]_vars

(* ----------------------- social media extraction ------------------------ *)
MaxProfiles == 1

MaxPosts == 1

Platforms == {"facebook", "instagram"}

Usernames == {"alice", "bob"}

NoUsername == ""

\* the profiles of a platform in the simulation data: the username, and
\* whether _profile_matches_user holds for the profile
ProfileLists == SeqsUpTo([username : Usernames \cup {NoUsername}, matches : BOOLEAN], MaxProfiles)

\* the posts of a platform: the author and the tagged users
PostLists == SeqsUpTo([username : Usernames, tagged_users : SUBSET Usernames], MaxPosts)

Task(kind, platform) == [kind |-> kind, platform |-> platform]

\* the task the event loop runs next: the ready callbacks run in the order in
\* which they were registered
Runs(kind, platform) == ex.ready # <<>> /\ Head(ex.ready) = Task(kind, platform)

\* _process_profile_chunk: the matching profiles of a chunk
ProfilesFound(profiles) == SelectSeq(profiles, LAMBDA p : p.matches)

\* _process_profile_chunk: the non-empty usernames of the matching profiles
ChunkUsernames(profiles) ==
    {p.username : p \in {q \in Range(profiles) : q.matches /\ q.username # NoUsername}}

\* _post_relates_to_user: the author or a tagged user is a discovered username
PostRelatesToUser(post, discovered) ==
    \/ post.username \in discovered
    \/ \E username \in post.tagged_users : username \in discovered

\* mutant of Discover: the usernames of the chunk are not added
Discover_Nothing(discovered, usernames) == discovered

\* self._discovered_usernames.update(discovered_usernames)
Discover(discovered, usernames) == discovered \cup usernames

\* _scan_platform_posts up to its gather: without posts it returns at once and
\* the platform task ends, else a chunk task is created and awaited
ScanPlatformPosts(e, platform) ==
    IF e.data[platform].posts = <<>>
    THEN [e EXCEPT !.stage[platform] = "done"]
    ELSE [e EXCEPT !.stage[platform] = "posts",
                   !.ready = Append(@, Task("post_chunk", platform))]

\* _extract_platform_data takes its first turn: _scan_platform_profiles
\* returns at once without profiles, and the post scan follows in the same
\* turn; else a chunk task is created and awaited
ExtractPlatformData(platform) ==
    /\ Runs("platform", platform)
    /\ ex.stage[platform] = "created"
    /\ LET e == [ex EXCEPT !.ready = Tail(@)]
       IN ex' = IF ex.data[platform].profiles = <<>>
                THEN ScanPlatformPosts([e EXCEPT !.scanned[platform] = TRUE], platform)
                ELSE [e EXCEPT !.stage[platform] = "profiles",
                               !.ready = Append(@, Task("profile_chunk", platform))]
    /\ UNCHANGED <<loadVars, trackVars, resolveVars, chunking, merging, callVars>>

\* _process_profile_chunk runs to its end
ProcessProfileChunk(platform) ==
    /\ Runs("profile_chunk", platform)
    /\ ex' = [ex EXCEPT !.ready = Append(Tail(@), Task("gathered", platform)),
                        !.chunk_usernames[platform] =
                            ChunkUsernames(ex.data[platform].profiles)]
    /\ UNCHANGED <<loadVars, trackVars, resolveVars, chunking, merging, callVars>>

\* _process_post_chunk runs to its end: the posts that relate to the user by
\* the usernames discovered so far
ProcessPostChunk(platform) ==
    /\ Runs("post_chunk", platform)
    /\ ex' = [ex EXCEPT !.ready = Append(Tail(@), Task("gathered", platform)),
                        !.seen[platform] = ex.discovered,
                        !.posts_found[platform] =
                            SelectSeq(ex.data[platform].posts,
                                      LAMBDA post : PostRelatesToUser(post, ex.discovered))]
    /\ UNCHANGED <<loadVars, trackVars, resolveVars, chunking, merging, callVars>>

\* the callback of gather: every chunk task is done and the awaiting platform
\* task is made ready
Gathered_Wakeup(platform) ==
    /\ Runs("gathered", platform)
    /\ ex' = [ex EXCEPT !.ready = Append(Tail(@), Task("platform", platform))]
    /\ UNCHANGED <<loadVars, trackVars, resolveVars, chunking, merging, callVars>>

\* _scan_platform_profiles after its gather: the profiles found are collected
\* and the usernames added to the discovered set; the post scan follows
AfterProfileScan(platform) ==
    /\ Runs("platform", platform)
    /\ ex.stage[platform] = "profiles"
    /\ ex' = ScanPlatformPosts(
                 [ex EXCEPT !.ready = Tail(@),
                            !.scanned[platform] = TRUE,
                            !.profiles_found[platform] =
                                ProfilesFound(ex.data[platform].profiles),
                            !.discovered =
                                Discover(@, ex.chunk_usernames[platform])],
                 platform)
    /\ UNCHANGED <<loadVars, trackVars, resolveVars, chunking, merging, callVars>>

\* _scan_platform_posts after its gather: the platform task returns
AfterPostScan(platform) ==
    /\ Runs("platform", platform)
    /\ ex.stage[platform] = "posts"
    /\ ex' = [ex EXCEPT !.ready = Tail(@), !.stage[platform] = "done"]
    /\ UNCHANGED <<loadVars, trackVars, resolveVars, chunking, merging, callVars>>

\* _extract_data_async: one task per platform, in the order of the enum
PlatformOrder == <<"facebook", "instagram">>

InitExtract ==
    /\ db = EmptyTables
    /\ tx = EmptyTables
    /\ sess_new = {}
    /\ sess_deactive = FALSE
    /\ pc = "idle"
    /\ load_status = "not_started"
    /\ load_result = EmptyLoadResult
    /\ user_id = 1
    /\ tr = EmptyResult
    /\ rows = EmptyRows
    /\ raised = FALSE
    /\ loads = 0
    /\ db_before = EmptyTables
    /\ paths = NoPaths
    /\ tracked = NothingTracked
    /\ last_call = NoCall
    /\ now = 1
    /\ cache = {}
    /\ items = <<>>
    /\ pos = 0
    /\ batch = <<>>
    /\ outcomes = <<>>
    /\ run = NoRun
    /\ resolving = NoResolving
    /\ app = NoApplication
    /\ chunking = NoChunking
    /\ merging = NoMerging
    /\ \E data \in [Platforms -> [profiles : ProfileLists, posts : PostLists]] :
          ex = [ready |-> [k \in 1..Len(PlatformOrder) |-> Task("platform", PlatformOrder[k])],
                data |-> data,
                stage |-> [p \in Platforms |-> "created"],
                scanned |-> [p \in Platforms |-> FALSE],
                discovered |-> {},
                chunk_usernames |-> [p \in Platforms |-> {}],
                profiles_found |-> [p \in Platforms |-> <<>>],
                seen |-> [p \in Platforms |-> {}],
                posts_found |-> [p \in Platforms |-> <<>>]]

NextExtract ==
    \E platform \in Platforms :
        \/ ExtractPlatformData(platform)
        \/ ProcessProfileChunk(platform)
        \/ ProcessPostChunk(platform)
        \/ Gathered_Wakeup(platform)
        \/ AfterProfileScan(platform)
        \/ AfterPostScan(platform)

SpecExtract == InitExtract /\ [][NextExtract]_vars

(* ----------------------- the resolver, call by call ---------------------- *)
MaxCalls == 2

\* _extract_domain_from_url: the two reference_urls of the model are pages of
\* one site
ExtractDomainFromUrl(url) == "site.com"

\* mutant of GetUser: the error of RedisManager.set_user is not caught
GetUser_SetUnguarded(cached, stored, get_fails, set_fails) ==
    IF get_fails THEN [how |-> "cache_error", raised |-> TRUE, cached |-> cached]
    ELSE IF cached THEN [how |-> "cached", raised |-> FALSE, cached |-> cached]
    ELSE IF stored THEN [how |-> "stored", raised |-> set_fails, cached |-> ~set_fails]
    ELSE [how |-> "value_error", raised |-> TRUE, cached |-> cached]

\* RedisManager.get_user, then the query of _get_user: an error of the cache
\* read leaves _get_user; a user absent from both ends in a ValueError
GetUser(cached, stored, get_fails, set_fails) ==
    IF get_fails THEN [how |-> "cache_error", raised |-> TRUE, cached |-> cached]
    ELSE IF cached THEN [how |-> "cached", raised |-> FALSE, cached |-> cached]
    ELSE IF stored THEN [how |-> "stored", raised |-> FALSE, cached |-> ~set_fails]
    ELSE [how |-> "value_error", raised |-> TRUE, cached |-> cached]

\* one call of _get_or_create_digital_footprint
ResolveFootprint ==
    /\ resolving.open
    /\ Len(resolving.calls) < MaxCalls
    /\ \E url \in Urls, type \in FootprintTypes, get_fails, set_fails \in BOOLEAN :
          LET media == MediaFilepath(type)
              probe == [id |-> NoId, url |-> url, media |-> media]
              r == GetOrCreateDigitalFootprint(cache, db.fps, url, media, get_fails, set_fails)
          IN /\ set_fails => (~get_fails /\ CachedFootprint(cache, url, media) = {}
                              /\ ExistingFootprint(db.fps, probe) # NoId)
             /\ cache' = r.cache
             /\ resolving' = [resolving EXCEPT !.calls = Append(@,
                    [op |-> "footprint", url |-> url, type |-> type, media |-> media,
                     get_fails |-> get_fails, set_fails |-> set_fails,
                     cached |-> CachedFootprint(cache, url, media) # {},
                     stored |-> ExistingFootprint(db.fps, probe) # NoId,
                     how |-> r.how, raised |-> Raised(r), is_new |-> r.is_new,
                     fp |-> r.fp])]
    /\ UNCHANGED <<loadVars, trackVars, items, pos, batch, outcomes, run,
                   chunking, merging, ex, app>>

\* one call of _get_user
GetUserCall ==
    /\ resolving.open
    /\ Len(resolving.calls) < MaxCalls
    /\ \E get_fails, set_fails \in BOOLEAN :
          LET r == GetUser(resolving.user_cached, resolving.user_stored, get_fails, set_fails)
          IN /\ set_fails => r.how = "stored"
             /\ resolving' = [resolving EXCEPT
                    !.user_cached = r.cached,
                    !.calls = Append(@,
                        [op |-> "user", get_fails |-> get_fails, set_fails |-> set_fails,
                         cached |-> resolving.user_cached,
                         stored |-> resolving.user_stored,
                         how |-> r.how, raised |-> r.raised])]
    /\ UNCHANGED <<loadVars, trackVars, resolveVars, chunking, merging, ex, app>>

\* between two calls a load stores a footprint with the pair of the last
\* call, when the pair has no row yet
PersistFootprint ==
    /\ resolving.open
    /\ resolving.calls # <<>>
    /\ LET last == resolving.calls[Len(resolving.calls)]
       IN /\ last.op = "footprint"
          /\ LET fp == [id |-> FreshId(db.fps), url |-> last.url, media |-> last.media]
             IN /\ ExistingFootprint(db.fps, fp) = NoId
                /\ db' = [db EXCEPT !.fps = @ \cup {fp}]
                /\ tx' = db'
    /\ UNCHANGED <<sess_new, sess_deactive, pc, load_status, load_result, user_id, tr, rows,
                   raised, loads, db_before, paths, trackVars, resolveVars, sideVars>>

InitResolve ==
    /\ db \in StoredBefore
    /\ tx = db
    /\ sess_new = {}
    /\ sess_deactive = FALSE
    /\ pc = "idle"
    /\ load_status = "not_started"
    /\ load_result = EmptyLoadResult
    /\ user_id = 1
    /\ tr = EmptyResult
    /\ rows = EmptyRows
    /\ raised = FALSE
    /\ loads = 0
    /\ db_before = db
    /\ paths = NoPaths
    /\ tracked = NothingTracked
    /\ last_call = NoCall
    /\ now = 1
    /\ cache \in SUBSET db.fps
    /\ items = <<>>
    /\ pos = 0
    /\ batch = <<>>
    /\ outcomes = <<>>
    /\ run = NoRun
    /\ chunking = NoChunking
    /\ merging = NoMerging
    /\ ex = NoExtraction
    /\ \E user_cached, user_stored \in BOOLEAN, sources \in SUBSET {[id |-> 1, url |-> "site.com"]} :
          /\ user_cached => user_stored
          /\ resolving = [open |-> TRUE, calls |-> <<>>, sources |-> sources,
                          user_cached |-> user_cached, user_stored |-> user_stored]
    /\ app = NoApplication

NextResolve ==
    \/ ResolveFootprint
    \/ GetUserCall
    \/ PersistFootprint

SpecResolve == InitResolve /\ [][NextResolve]_vars

(* --------------------- run_scan: transform, then load ------------------- *)
\* storage before the run: empty, a footprint the subject is linked to, or a
\* footprint persisted by the scan of another subject
StoredByOthers ==
    [fps |-> {[id |-> 1, url |-> "u1", media |-> "m1"]}, ids |-> {}, acts |-> {},
     links |-> {<<2, 1>>}]

\* one record goes through _process_profile / _process_search_result and its
\* result is merged into the result of the run
TransformItem ==
    /\ pc = "transform"
    /\ Len(outcomes) < MaxItems
    /\ \E url \in Urls, type \in FootprintTypes, get_fails, set_fails \in BOOLEAN,
          detected \in DetectedIdentities :
          LET media == MediaFilepath(type)
              r == GetOrCreateDigitalFootprint(cache, db.fps, url, media,
                                               get_fails, set_fails)
              res == ItemResult(r, detected, now, FALSE)
          IN /\ \E merged \in MergeInto(tr, res) : tr' = merged
             /\ cache' = r.cache
             /\ outcomes' = Append(outcomes,
                                [state |-> "done", url |-> url, media |-> media,
                                 how |-> r.how, is_new |-> r.is_new, result |-> res])
             /\ tracked' =
                    IF Raised(r) THEN tracked
                    ELSE [identities |-> tracked.identities
                                            \cup {<<url, media, f>> : f \in Range(detected)},
                          activity_logs |-> tracked.activity_logs \cup {<<url, media, now>>}]
    /\ UNCHANGED <<db, tx, sess_new, sess_deactive, pc, load_status, load_result,
                   user_id, rows, raised, loads, db_before, paths, last_call, now,
                   items, pos, batch, run, sideVars>>

InitPipeline ==
    /\ db \in StoredBefore \cup {StoredByOthers}
    /\ tx = db
    /\ sess_new = {}
    /\ sess_deactive = FALSE
    /\ pc = "transform"
    /\ load_status = "not_started"
    /\ load_result = EmptyLoadResult
    /\ user_id = 1
    /\ tr = EmptyResult
    /\ rows = EmptyRows
    /\ raised = FALSE
    /\ loads = 0
    /\ db_before = db
    /\ paths = NoPaths
    /\ tracked = NothingTracked
    /\ last_call = NoCall
    /\ now = 1
    /\ cache \in SUBSET db.fps
    /\ items = <<>>
    /\ pos = 0
    /\ batch = <<>>
    /\ outcomes = <<>>
    /\ run = NoRun
    /\ resolving = NoResolving
    /\ app = NoApplication
    /\ chunking = NoChunking
    /\ merging = NoMerging
    /\ ex = NoExtraction

NextPipeline ==
    \/ TransformItem
    \/ Tick
    \/ LoadTransformed
    \/ LoadDigitalFootprints
    \/ CreateFromPendingStage
    \/ LoadPersonalIdentities
    \/ LoadActivityLogs
    \/ LinkUserToFootprints
    \/ Commit

SpecPipeline == InitPipeline /\ [][NextPipeline]_vars

(* ================= pure functions applied to one input ================= *)
\* every variable but app at rest: the function under application touches
\* no state of the pipeline
RestOfPipelineIdle ==
    /\ db = EmptyTables
    /\ tx = EmptyTables
    /\ sess_new = {}
    /\ sess_deactive = FALSE
    /\ pc = "idle"
    /\ load_status = "not_started"
    /\ load_result = EmptyLoadResult
    /\ user_id = 1
    /\ tr = EmptyResult
    /\ rows = EmptyRows
    /\ raised = FALSE
    /\ loads = 0
    /\ db_before = EmptyTables
    /\ paths = NoPaths
    /\ tracked = NothingTracked
    /\ last_call = NoCall
    /\ now = 1
    /\ cache = {}
    /\ items = <<>>
    /\ pos = 0
    /\ batch = <<>>
    /\ outcomes = <<>>
    /\ run = NoRun
    /\ resolving = NoResolving
    /\ chunking = NoChunking
    /\ merging = NoMerging
    /\ ex = NoExtraction

pureVars == <<db, tx, sess_new, sess_deactive, pc, load_status, load_result,
              user_id, tr, rows, raised, loads, db_before, paths, tracked,
              last_call, now, cache, items, pos, batch, outcomes, run,
              resolving, chunking, merging, ex>>

(* --------------------- _construct_media_filepath ----------------------- *)
\* the last component of the URL's path, as a sequence of pieces: "." is the
\* dot, every other piece is a dot-free run of characters
MaxNameLen == 3

Dot == "."

NamePieces == {Dot, "a", "png", "PNG", "jpg", "Jpeg", "gif",
               "mp4", "AVI", "wmv", "mkv", "bmp"}

FileNames == SeqsUpTo(NamePieces, MaxNameLen)

DigitalFootprintType == {"image", "video", "text", "audio"}

\* str.lower() on one piece
Lower(piece) ==
    CASE piece = "PNG" -> "png"
      [] piece = "Jpeg" -> "jpeg"
      [] piece = "AVI" -> "avi"
      [] piece = "Main" -> "main"
      [] piece = "Haifa" -> "haifa"
      [] piece = "Israel" -> "israel"
      [] OTHER -> piece

RECURSIVE Joined(_)
Joined(pieces) ==
    IF pieces = <<>> THEN "" ELSE Head(pieces) \o Joined(Tail(pieces))

LowerAll(pieces) == [k \in 1..Len(pieces) |-> Lower(pieces[k])]

\* str.rfind('.') in pieces: 0 when there is no dot
RFindDot(name) ==
    LET dots == {k \in 1..Len(name) : name[k] = Dot}
    IN IF dots = {} THEN 0 ELSE CHOOSE k \in dots : \A d \in dots : d <= k

\* pathlib's PurePath.suffix: the text from the last dot on, unless the dot
\* opens or closes the name
PathSuffix(name) ==
    LET i == RFindDot(name)
    IN IF 1 < i /\ i < Len(name) THEN SubSeq(name, i, Len(name)) ELSE <<>>

ImageSuffix == {".png", ".jpg", ".jpeg", ".gif"}

VideoSuffix == {".mp4", ".avi", ".wmv", ".mkv"}

\* has_value lowers its argument again before the membership test
HasValue(suffixes, value) == Joined(LowerAll(value)) \in suffixes

ConstructMediaFilepath_NoLower(name, type) ==
    LET file_extension == PathSuffix(name)
    IN CASE type = "text" -> NoMedia
         [] type = "image" ->
                IF HasValue(ImageSuffix, file_extension)
                THEN "src/media/images/mock_image" \o Joined(file_extension)
                ELSE "src/media/images/mock_image.jpg"
         [] type = "video" ->
                IF HasValue(VideoSuffix, file_extension)
                THEN "src/media/videos/mock_video" \o Joined(file_extension)
                ELSE "src/media/videos/mock_video.mp4"
         [] type = "audio" -> "src/media/audios/mock_audio.mp3"
         [] OTHER -> NoMedia

ConstructMediaFilepath(name, type) ==
    LET file_extension == LowerAll(PathSuffix(name))
    IN CASE type = "text" -> NoMedia
         [] type = "image" ->
                IF HasValue(ImageSuffix, file_extension)
                THEN "src/media/images/mock_image" \o Joined(file_extension)
                ELSE "src/media/images/mock_image.jpg"
         [] type = "video" ->
                IF HasValue(VideoSuffix, file_extension)
                THEN "src/media/videos/mock_video" \o Joined(file_extension)
                ELSE "src/media/videos/mock_video.mp4"
         [] type = "audio" -> "src/media/audios/mock_audio.mp3"
         [] OTHER -> NoMedia

ApplyConstructMediaFilepath ==
    /\ app.of = "media"
    /\ ~app.done
    /\ app' = [app EXCEPT !.done = TRUE,
                          !.result = ConstructMediaFilepath(app.name, app.type)]
    /\ UNCHANGED pureVars

InitMedia ==
    /\ RestOfPipelineIdle
    /\ \E name \in FileNames, type \in DigitalFootprintType :
          app = [of |-> "media", name |-> name, type |-> type,
                 done |-> FALSE, result |-> NoMedia]

NextMedia == ApplyConstructMediaFilepath

SpecMedia == InitMedia /\ [][NextMedia]_vars

(* --------------------- _generate_user_identifiers ---------------------- *)
MaxAddresses == 2

NoText == ""

NoNumber == 0

\* an address column holds a value or the empty value of its type
Addresses ==
    [street : {NoText, "Main"}, number : {NoNumber, 5},
     city : {NoText, "Haifa"}, country : {NoText, "Israel"}]

\* str() of a street number inside an f-string
NumberText(n) == IF n = 5 THEN "5" ELSE "0"

\* the components list built for one address
AddressComponents(addr) ==
    (IF addr.street # NoText /\ addr.number # NoNumber
        THEN <<NumberText(addr.number) \o " " \o Lower(addr.street)>> ELSE <<>>)
    \o (IF addr.city # NoText THEN <<Lower(addr.city)>> ELSE <<>>)
    \o (IF addr.country # NoText THEN <<Lower(addr.country)>> ELSE <<>>)

\* ", ".join(components)
RECURSIVE JoinComma(_)
JoinComma(components) ==
    IF Len(components) = 0 THEN ""
    ELSE IF Len(components) = 1 THEN components[1]
    ELSE components[1] \o ", " \o JoinComma(Tail(components))

AddressIdentifiers_StreetWithoutNumber(addr) ==
    LET components == AddressComponents(addr)
    IN (IF Len(components) >= 3 THEN {JoinComma(components)} ELSE {})
       \cup (IF addr.street # NoText /\ addr.city # NoText
             THEN {NumberText(addr.number) \o " " \o Lower(addr.street)
                      \o ", " \o Lower(addr.city)}
             ELSE {})
       \cup (IF addr.city # NoText /\ addr.country # NoText
             THEN {Lower(addr.city) \o ", " \o Lower(addr.country)}
             ELSE {})

\* the strings one pass of the address loop adds to identifiers['addresses']
AddressIdentifiers(addr) ==
    LET components == AddressComponents(addr)
    IN IF Len(components) >= 2
       THEN (IF Len(components) >= 3 THEN {JoinComma(components)} ELSE {})
            \cup (IF Len(components) >= 2 /\ addr.street # NoText
                     /\ addr.number # NoNumber /\ addr.city # NoText
                  THEN {NumberText(addr.number) \o " " \o Lower(addr.street)
                           \o ", " \o Lower(addr.city)}
                  ELSE {})
            \cup (IF addr.city # NoText /\ addr.country # NoText
                     /\ Len(components) >= 2
                  THEN {Lower(addr.city) \o ", " \o Lower(addr.country)}
                  ELSE {})
       ELSE {}

GenerateUserIdentifiers ==
    /\ app.of = "identifiers"
    /\ ~app.done
    /\ LET emitted == [k \in 1..Len(app.addresses) |->
                          AddressIdentifiers(app.addresses[k])]
       IN app' = [app EXCEPT !.done = TRUE,
                             !.emitted = emitted,
                             !.addresses_found =
                                 UNION {emitted[k] : k \in 1..Len(emitted)}]
    /\ UNCHANGED pureVars

InitIdentifiers ==
    /\ RestOfPipelineIdle
    /\ \E addresses \in SeqsUpTo(Addresses, MaxAddresses) :
          app = [of |-> "identifiers", addresses |-> addresses, done |-> FALSE,
                 emitted |-> <<>>, addresses_found |-> {}]

NextIdentifiers == GenerateUserIdentifiers

SpecIdentifiers == InitIdentifiers /\ [][NextIdentifiers]_vars

(* ------------- _profile_matches_user, _result_relates_to_user ---------- *)
\* texts are sequences of characters
MaxLetters == 2

NameLetters == {"a", "B", "eszett"}

Space == " "

SubjectNames == {t \in SeqsUpTo(NameLetters, MaxLetters) : Len(t) >= 1}

\* str.lower() on one character: "eszett", the sharp s (U+00DF), is already
\* lower case
LowerChar(c) ==
    CASE c = "A" -> "a"
      [] c = "B" -> "b"
      [] c = "S" -> "s"
      [] OTHER -> c

\* str.upper() on one character: the upper case of the sharp s is "SS"
UpperChar(c) ==
    CASE c = "a" -> <<"A">>
      [] c = "b" -> <<"B">>
      [] c = "s" -> <<"S">>
      [] c = "eszett" -> <<"S", "S">>
      [] OTHER -> <<c>>

LowerText(t) == [k \in 1..Len(t) |-> LowerChar(t[k])]

\* the spellings of a text that differ from it in letter case only: every
\* character as it is, in upper case or in lower case
RECURSIVE CaseVariants(_)
CaseVariants(t) ==
    IF t = <<>> THEN {<<>>}
    ELSE {v \o w : v \in {<<Head(t)>>, UpperChar(Head(t)), <<LowerChar(Head(t))>>},
                   w \in CaseVariants(Tail(t))}

\* str.strip()
RECURSIVE StripText(_)
StripText(t) ==
    IF t = <<>> THEN t
    ELSE IF Head(t) = Space THEN StripText(Tail(t))
    ELSE IF t[Len(t)] = Space THEN StripText(SubSeq(t, 1, Len(t) - 1))
    ELSE t

\* needle in hay
Contains(hay, needle) ==
    \E k \in 0..(Len(hay) - Len(needle)) :
        SubSeq(hay, k + 1, k + Len(needle)) = needle

\* other_match: the email, phone and address tests, which read fields that
\* do not hold the name
ProfileMatchesUser(profile, user, other_match) ==
    LET profile_first == StripText(LowerText(profile.first_name))
        profile_last == StripText(LowerText(profile.last_name))
        user_first == LowerText(user.first_name)
        user_last == LowerText(user.last_name)
        name_match == profile_first = user_first /\ profile_last = user_last
    IN name_match \/ other_match

ResultRelatesToUser(result, user, other_match) ==
    LET first_name == LowerText(user.first_name)
        last_name == LowerText(user.last_name)
        title == LowerText(result.title)
        title_match == Contains(title, first_name) /\ Contains(title, last_name)
        content == LowerText(result.content)
        content_match == Contains(content, first_name) /\ Contains(content, last_name)
    IN title_match \/ content_match \/ other_match

\* the profile record that spells the subject's name as first, last
ProfileRecord(first, last, padded, own_last) ==
    [first_name |-> IF padded THEN <<Space>> \o first \o <<Space>> ELSE first,
     last_name |-> IF own_last THEN last ELSE <<"z">>]

\* the search result that spells the subject's name as first, last
ResultRecord(first, last, where, own_last) ==
    LET text == <<"x">> \o first \o <<Space>> \o (IF own_last THEN last ELSE <<"z">>)
    IN [title |-> IF where = "title" THEN text ELSE <<"x">>,
        content |-> IF where = "content" THEN text ELSE <<"x">>]

MatchProfile ==
    /\ app.of = "match"
    /\ app.matcher = "profile"
    /\ ~app.done
    /\ app' = [app EXCEPT
                  !.done = TRUE,
                  !.decision = ProfileMatchesUser(
                      ProfileRecord(app.user.first_name, app.user.last_name,
                                    app.padded, app.own_last),
                      app.user, app.other_match),
                  !.decision_variant = ProfileMatchesUser(
                      ProfileRecord(app.first_variant, app.last_variant,
                                    app.padded, app.own_last),
                      app.user, app.other_match)]
    /\ UNCHANGED pureVars

MatchResult ==
    /\ app.of = "match"
    /\ app.matcher = "result"
    /\ ~app.done
    /\ app' = [app EXCEPT
                  !.done = TRUE,
                  !.decision = ResultRelatesToUser(
                      ResultRecord(app.user.first_name, app.user.last_name,
                                   app.where, app.own_last),
                      app.user, app.other_match),
                  !.decision_variant = ResultRelatesToUser(
                      ResultRecord(app.first_variant, app.last_variant,
                                   app.where, app.own_last),
                      app.user, app.other_match)]
    /\ UNCHANGED pureVars

InitMatch ==
    /\ RestOfPipelineIdle
    /\ \E first, last \in SubjectNames, matcher \in {"profile", "result"},
          padded, own_last, other_match \in BOOLEAN, where \in {"title", "content"} :
         \E first_variant \in CaseVariants(first), last_variant \in CaseVariants(last) :
            /\ matcher = "profile" => where = "title"
            /\ matcher = "result" => ~padded
            /\ app = [of |-> "match", matcher |-> matcher,
                      user |-> [first_name |-> first, last_name |-> last],
                      first_variant |-> first_variant, last_variant |-> last_variant,
                      padded |-> padded, own_last |-> own_last, where |-> where,
                      other_match |-> other_match, done |-> FALSE,
                      decision |-> FALSE, decision_variant |-> FALSE]

NextMatch ==
    \/ MatchProfile
    \/ MatchResult

SpecMatch == InitMatch /\ [][NextMatch]_vars

(* ---------- _process_post_chunk, _process_results_chunk: grouping ------- *)
MaxRecords == 2

Absent == "None"

PostType == {"text_only", "image", "video"}

SearchResultType == {"image", "video", "webpage", "pdf"}

\* raw posts: the author and the post type, either key possibly absent
RawPosts == [username : {Absent, "alice"}, post_type : {Absent, "image", "text_only"}]

\* raw search results: whether the title names the subject, and the result
\* type, possibly absent
RawResults == [names_user : BOOLEAN, result_type : {Absent, "webpage", "pdf"}]

\* dict.get(key, ''): an absent key is read as the empty string
GetOrEmpty(value) == IF value = Absent THEN "" ELSE value

\* f'{post_type}_posts_found' with post_type = post.get('post_type'): an
\* absent key is formatted as 'None'
GroupKey(type, suffix) == type \o suffix

GroupKeys(types, suffix) == {t \o suffix : t \in types}

\* the loop of a chunk over its records from position k on: the records
\* grouped so far, the number of records scanned and whether the lookup of
\* the group raised KeyError
RECURSIVE GroupChunk(_, _, _, _, _)
GroupChunk(chunk, relates, keys, suffix, k) ==
    IF k > Len(chunk) THEN [found |-> <<>>, scanned |-> 0, raised |-> FALSE]
    ELSE IF ~relates[k]
         THEN LET rest == GroupChunk(chunk, relates, keys, suffix, k + 1)
              IN [rest EXCEPT !.scanned = @ + 1]
         ELSE IF GroupKey(chunk[k].type, suffix) \notin keys
              THEN [found |-> <<>>, scanned |-> 1, raised |-> TRUE]
              ELSE LET rest == GroupChunk(chunk, relates, keys, suffix, k + 1)
                   IN [rest EXCEPT !.scanned = @ + 1, !.found = <<k>> \o @]

\* _process_results_chunk runs to its end or to its KeyError
GroupResultsChunk ==
    /\ app.of = "scan"
    /\ app.pc = "results"
    /\ LET chunk == [k \in 1..Len(app.results) |-> [type |-> app.results[k].result_type]]
           relates == [k \in 1..Len(app.results) |-> app.results[k].names_user]
       IN app' = [app EXCEPT
                     !.pc = "posts",
                     !.results_chunk = GroupChunk(chunk, relates,
                                                  GroupKeys(SearchResultType, "_results_found"),
                                                  "_results_found", 1)]
    /\ UNCHANGED pureVars

\* _process_post_chunk runs to its end or to its KeyError
GroupPostChunk ==
    /\ app.of = "scan"
    /\ app.pc = "posts"
    /\ LET chunk == [k \in 1..Len(app.posts) |-> [type |-> app.posts[k].post_type]]
           relates == [k \in 1..Len(app.posts) |->
                          GetOrEmpty(app.posts[k].username) \in app.discovered]
       IN app' = [app EXCEPT
                     !.pc = "gather",
                     !.posts_chunk = GroupChunk(chunk, relates,
                                                GroupKeys(PostType, "_posts_found"),
                                                "_posts_found", 1)]
    /\ UNCHANGED pureVars

\* UnifiedExtractor._extract_data_async after its gather: the exception of a
\* chunk task passes through every gather on the way up
ExtractDataAsync ==
    /\ app.of = "scan"
    /\ app.pc = "gather"
    /\ app' = [app EXCEPT
                  !.pc = IF app.results_chunk.raised \/ app.posts_chunk.raised
                         THEN "failed" ELSE "completed"]
    /\ UNCHANGED pureVars

InitScan ==
    /\ RestOfPipelineIdle
    /\ \E posts \in SeqsUpTo(RawPosts, MaxRecords),
          results \in SeqsUpTo(RawResults, MaxRecords) :
          app = [of |-> "scan", pc |-> "results", posts |-> posts, results |-> results,
                 discovered |-> {"alice"},
                 results_chunk |-> [found |-> <<>>, scanned |-> 0, raised |-> FALSE],
                 posts_chunk |-> [found |-> <<>>, scanned |-> 0, raised |-> FALSE]]

NextScan ==
    \/ GroupResultsChunk
    \/ GroupPostChunk
    \/ ExtractDataAsync

SpecScan == InitScan /\ [][NextScan]_vars

(* ----------------------- _analyze_media, _process_post ------------------ *)
Picture == "picture"

\* what the face matcher does when it is called, and what the transcriptor
\* does when it is called
MatcherOutcomes == {"match", "no_match", "raises"}

TranscriptorOutcomes == {"silent", "names_user", "raises"}

\* the surroundings of one call: the subject's reference photo, the two files
\* on disk and the behaviour of the two routines
Surroundings ==
    [reference_photo : BOOLEAN, media_exists : BOOLEAN, reference_exists : BOOLEAN,
     matcher : MatcherOutcomes, transcriptor : TranscriptorOutcomes]

NoAnalysis ==
    [face_match_found |-> FALSE, transcription |-> FALSE,
     identities_detected |-> <<>>, matched |-> <<>>]

AnalyzeMedia_PictureBeforeMatch(media_filepath, footprint_type, env) ==
    IF ~env.reference_photo \/ media_filepath = NoMedia
          \/ ~env.media_exists \/ ~env.reference_exists
          \/ footprint_type \notin {"image", "video"}
    THEN NoAnalysis
    ELSE [NoAnalysis EXCEPT !.matched = <<media_filepath>>,
                            !.face_match_found = env.matcher = "match",
                            !.identities_detected = <<Picture>>]

\* _analyze_media: the analysis result, "matched" being the media paths
\* handed to the face matcher
AnalyzeMedia(media_filepath, footprint_type, env) ==
    IF ~env.reference_photo THEN NoAnalysis
    ELSE IF media_filepath = NoMedia THEN NoAnalysis
    ELSE IF ~env.media_exists THEN NoAnalysis
    ELSE IF ~env.reference_exists THEN NoAnalysis
    ELSE IF footprint_type \notin {"image", "video"} THEN NoAnalysis
    ELSE LET called == [NoAnalysis EXCEPT !.matched = <<media_filepath>>]
         IN CASE env.matcher = "raises" -> called
              [] env.matcher = "no_match" -> called
              [] env.matcher = "match" ->
                     LET found == [called EXCEPT !.face_match_found = TRUE,
                                                 !.identities_detected = <<Picture>>]
                     IN IF footprint_type = "image" \/ env.transcriptor = "raises"
                        THEN found
                        ELSE [found EXCEPT
                                 !.transcription = TRUE,
                                 !.identities_detected =
                                     IF env.transcriptor = "names_user"
                                     THEN <<Picture, "name">> ELSE <<Picture>>]

\* _process_post from the resolved footprint on: the identities of the text,
\* the media analysis, the tracking of the identities and of the activity log
ProcessPost ==
    /\ app.of = "analyze"
    /\ ~app.done
    /\ LET fp == app.digital_footprint
           analysed == fp.media # NoMedia /\ app.type \in {"image", "video"}
           media_analysis == IF analysed THEN AnalyzeMedia(fp.media, app.type, app.env)
                             ELSE NoAnalysis
           identities_detected == app.text_identities \o media_analysis.identities_detected
       IN app' = [app EXCEPT
                     !.done = TRUE,
                     !.matched = media_analysis.matched,
                     !.pending_identities = {<<fp.url, x>> : x \in Range(identities_detected)},
                     !.pending_activity_logs = {<<fp.url, 1>>},
                     !.media_files_processed = IF analysed THEN 1 ELSE 0,
                     !.face_matches_found =
                         IF media_analysis.face_match_found THEN 1 ELSE 0,
                     !.videos_transcribed = IF media_analysis.transcription THEN 1 ELSE 0]
    /\ UNCHANGED pureVars

InitAnalyze ==
    /\ RestOfPipelineIdle
    /\ \E type \in DigitalFootprintType, env \in Surroundings,
          text_identities \in {<<>>, <<"name">>} :
          app = [of |-> "analyze", type |-> type, env |-> env,
                 digital_footprint |-> [id |-> 1, url |-> "u1",
                                        media |-> IF type = "text" THEN NoMedia ELSE "m1"],
                 text_identities |-> text_identities, done |-> FALSE, matched |-> <<>>,
                 pending_identities |-> {}, pending_activity_logs |-> {},
                 media_files_processed |-> 0, face_matches_found |-> 0,
                 videos_transcribed |-> 0]

NextAnalyze == ProcessPost

SpecAnalyze == InitAnalyze /\ [][NextAnalyze]_vars

(* ============================ properties =============================== *)
InLoad == pc \in {"footprints", "create", "identities", "activities", "links", "commit"}

Completed == pc = "done" /\ load_status = "completed"

NewRows(table, before) == table \ before

\* C2: storage never holds two digital_footprints rows with the same
\* (reference_url, media_filepath) pair, a text footprint's absent
\* media_filepath included
C2_UniquePairInStorage ==
    \A r1, r2 \in db.fps : (r1.url = r2.url /\ r1.media = r2.media) => r1 = r2

\* C4: a completed load has persisted every footprint it counted in
\* footprints_inserted (a later stage's fallback keeps the earlier stages' rows)
C4_CompletedKeepsFootprints ==
    Completed =>
        Cardinality(NewRows(db.fps, db_before.fps)) = load_result.footprints_inserted

\* C7: after a completed load every footprint of new_digital_footprints that
\* has an id is linked to the subject in storage
C7_EveryFootprintLinked ==
    Completed =>
        \A i \in 1..Len(tr.new_digital_footprints) :
            tr.new_digital_footprints[i].id # NoId =>
                <<user_id, tr.new_digital_footprints[i].id>> \in db.links


PairRows(fps, fp) == {r \in fps : r.url = fp.url /\ r.media = fp.media}

\* C3: on the individual retry of the footprint stage a footprint whose pair
\* already has a row adopts that row's id and no row is inserted for it, a
\* footprint without one is inserted once with a fresh id, and
\* footprints_skipped counts the adopted ones (at least one)
C3_IndividualRetryAdoptsOrInserts ==
    (pc = "create" /\ paths.footprints = "individual") =>
        LET list == tr.new_digital_footprints
            Adopted(i) ==
                \/ PairRows(db_before.fps, list[i]) # {}
                \/ \E j \in 1..(i - 1) : list[j].url = list[i].url
                                         /\ list[j].media = list[i].media
        IN /\ load_result.footprints_skipped > 0
           /\ load_result.footprints_skipped =
                  Cardinality({i \in 1..Len(list) : Adopted(i)})
           /\ load_result.footprints_inserted =
                  Cardinality({i \in 1..Len(list) : ~Adopted(i)})
           /\ \A i \in 1..Len(list) :
                  LET before == PairRows(db_before.fps, list[i])
                      added == PairRows(tx.fps \ db_before.fps, list[i])
                  IN /\ before # {} =>
                            /\ list[i].id \in {r.id : r \in before}
                            /\ added = {}
                     /\ before = {} =>
                            /\ added = {list[i]}
                            /\ list[i].id \notin FootprintIds(db_before)

\* C3 witness: an individual retry that adopted an id from a row stored by an
\* earlier load and inserted another footprint singly
C3_Witness ==
    /\ pc = "create"
    /\ paths.footprints = "individual"
    /\ load_result.footprints_inserted > 0
    /\ \E i \in 1..Len(tr.new_digital_footprints) :
           tr.new_digital_footprints[i].id \in FootprintIds(db_before)

AssignedIds ==
    {tr.new_digital_footprints[i].id : i \in 1..Len(tr.new_digital_footprints)} \ {NoId}

Written(kind) ==
    NewRows(Table(tx, kind), Table(db, kind)) \cup {o.row : o \in {p \in sess_new : p.kind = kind}}

WrittenFootprintIds ==
    {r[1] : r \in Written("identity")} \cup {r[1] : r \in Written("activity")}
        \cup {r[2] : r \in Written("link")}

\* C5: a load writes in the order footprints, rows built from the pending
\* entries, identities, activity logs, links, commit; and every identity,
\* activity or link row it writes carries an id that the footprint stage of
\* the same load assigned or adopted
C5_StageOrderAndIds ==
    InLoad =>
        /\ db = db_before
        /\ pc = "footprints" => (tx = db /\ AssignedIds = {})
        /\ pc \in {"footprints", "create"} => rows = EmptyRows
        /\ pc \in {"footprints", "create", "identities"} => Written("identity") = {}
        /\ pc \in {"footprints", "create", "identities", "activities"} =>
               Written("activity") = {}
        /\ pc \in {"footprints", "create", "identities", "activities", "links"} =>
               Written("link") = {}
        /\ WrittenFootprintIds \subseteq AssignedIds

\* C5 witness: a load about to commit identity, activity and link rows
C5_Witness ==
    /\ pc = "commit"
    /\ Written("identity") # {}
    /\ Written("activity") # {}
    /\ Written("link") # {}

\* C6: when an exception leaves load(), the status is failed, a LoadError is
\* raised and the four tables are what they were before the call
C6_FailedLoadLeavesStorage ==
    pc = "done" =>
        /\ raised <=> load_status = "failed"
        /\ raised => db = db_before

\* C6 witness: a load that failed after footprints and identities were written
C6_Witness ==
    /\ pc = "done"
    /\ raised
    /\ load_result.footprints_inserted > 0
    /\ load_result.identities_inserted > 0

RowsFor(rs, pending) ==
    LET list == tr.new_digital_footprints
        HasFootprint(u) == \E i \in 1..Len(list) : list[i].id # NoId /\ list[i].url = u
    IN /\ \A k \in 1..Len(pending) :
              HasFootprint(pending[k][1]) =>
                  \E n \in 1..Len(rs) :
                      /\ rs[n][2] = pending[k][2]
                      /\ \E i \in 1..Len(list) : list[i].url = pending[k][1]
                                                 /\ list[i].id = rs[n][1]
       /\ Len(rs) = Cardinality({k \in 1..Len(pending) : HasFootprint(pending[k][1])})

Unmatched(pending) ==
    {k \in 1..Len(pending) :
        \A i \in 1..Len(tr.new_digital_footprints) :
            \/ tr.new_digital_footprints[i].id = NoId
            \/ tr.new_digital_footprints[i].url # pending[k][1]}

C8_FactsKeptPerNaturalKey ==
    Completed =>
        \A i \in 1..Len(tr.new_digital_footprints) :
            LET fp == tr.new_digital_footprints[i]
            IN /\ \A row \in db.ids :
                      row[1] = fp.id => <<fp.url, fp.media, row[2]>> \in tracked.identities
               /\ \A row \in db.acts :
                      row[1] = fp.id => <<fp.url, fp.media, row[2]>> \in tracked.activity_logs

\* C10: the first _track_pending_identity or _track_pending_activity_log call
\* for a footprint and a facet or timestamp returns true, a repeated one
\* returns false and leaves the length of the list under the reference_url
C10_TrackingIdempotent ==
    last_call.op # "none" =>
        /\ ~last_call.repeated => last_call.ret
        /\ last_call.repeated =>
               (~last_call.ret /\ last_call.len_after = last_call.len_before)


\* C1: two records of one run that resolve to the same (reference_url,
\* media_filepath) pair, absent from cache and storage, leave exactly one
\* footprint with that pair in new_digital_footprints: the resolver answers
\* is_new = true for the first and false for the second
C1_OneFootprintPerPair ==
    pc = "transformed" =>
        \A i, j \in 1..Len(items) :
            LET url == items[i].url
                media == MediaFilepath(items[i].type)
                probe == [id |-> NoId, url |-> url, media |-> media]
            IN (/\ i < j
                /\ NoTaskRaised
                /\ outcomes[i].state = "done"
                /\ outcomes[j].state = "done"
                /\ items[j].url = url
                /\ MediaFilepath(items[j].type) = media
                /\ ExistingFootprint(db.fps, probe) = NoId
                /\ CachedFootprint(cache, url, media) = {})
               => /\ outcomes[i].is_new
                  /\ ~outcomes[j].is_new
                  /\ Cardinality({k \in 1..Len(tr.new_digital_footprints) :
                         /\ tr.new_digital_footprints[k].url = url
                         /\ tr.new_digital_footprints[k].media = media}) = 1


\* C18: the chunk tasks launched and not yet finished are never more than 8
C18_AtMostEightRunning ==
    chunking.pc # "idle" =>
        chunking.launched - chunking.finished <= MaxConcurrentBatches

\* C19: for every item count of at least 1 and every CPU count, the unknown
\* one included, _calculate_chunk_size returns a value from 10 to 50
C19_ChunkSizeInRange ==
    chunking.pc \notin {"idle", "start"} =>
        /\ chunking.total_items >= 1
        /\ chunking.chunk_size >= MinChunkSize
        /\ chunking.chunk_size <= MaxChunkSize

\* C19 witness: a size strictly inside the range computed for an unknown CPU
\* count
C19_Witness ==
    /\ chunking.pc = "merged"
    /\ chunking.cpu_count = NoCpuCount
    /\ ~chunking.fails
    /\ chunking.chunk_size > MinChunkSize
    /\ chunking.chunk_size < MaxChunkSize


\* C13: merging results in any order and any grouping leaves the same
\* counters, the same facets and timestamps per reference_url and the same
\* multiset of new footprints
C13_MergeOrderIndependent ==
    merging.parts # <<>> => Holdings(merging.parts) = merging.before

\* C13 witness: three results sharing a reference_url, with different facts
\* and a footprint each, merged into one
C13_Witness ==
    /\ Len(merging.parts) = 1
    /\ merging.before.stats.items_processed = 3
    /\ <<[id |-> NoId, url |-> "u1", media |-> "m1"], 3>> \in merging.before.footprints
    /\ Cardinality(merging.before.timestamps) = 2
    /\ Len(merging.parts[1].pending_identities) = 2


\* C11: after a run, the merged identities_detected counter is the number of
\* distinct (reference_url, facet) pairs held in pending_identities
C11_CounterMatchesPending ==
    pc = "transformed" =>
        tr.processing_stats.identities_detected = Cardinality(Range(tr.pending_identities))

\* C12: for every list of records and every chunk size from 1 to its length,
\* the merged items_processed counter of the batch pipeline is the length
C12_AllItemsCounted ==
    (pc = "transformed" /\ NoTaskRaised /\ items # <<>>) =>
        run.result.processing_stats.items_processed = Len(items)

\* C14: a record whose processing raises adds nothing to the result of its
\* batch, every other record of the chunk and of the other chunks is processed
\* and merged, and the batch returns
C14_FailedItemSkipped ==
    /\ \A c \in 1..Len(batch) :
          batch[c].state = "done" =>
              /\ \A i \in ChunkItems(c) : Finished(i)
              /\ Holdings(<<batch[c].result>>) =
                     Holdings(ResultsOf(Processed(ChunkItems(c)), 1))
    /\ (pc = "transformed" /\ NoTaskRaised) =>
          /\ \A i \in 1..Len(items) : Finished(i)
          /\ Holdings(<<tr>>) = Holdings(ResultsOf(Processed(1..Len(items)), 1))

\* C14 witness: the first record of a chunk raised, the second was processed
\* after it and its facts are in the merged result
C14_Witness ==
    /\ pc = "transformed"
    /\ NoTaskRaised
    /\ \E i, j \in 1..Len(items) :
          /\ i < j
          /\ ChunkOf(i) = ChunkOf(j)
          /\ outcomes[i].state = "raised"
          /\ outcomes[j].state = "done"
          /\ outcomes[j].result.pending_identities # <<>>
          /\ Range(outcomes[j].result.pending_identities) \subseteq Range(tr.pending_identities)

\* C15: a chunk task or transformer task that ends with an exception leaves
\* nothing in the merged result; every other task runs to its end, none is
\* cancelled, and its result is merged in full
C15_FailedTaskDropped ==
    pc = "transformed" =>
        /\ \A t \in Transformers : run[t] \in {"done", "raised"}
        /\ \A c \in 1..Len(batch) :
              /\ batch[c].state \in {"done", "raised"}
              /\ batch[c].state = "done" => \A i \in ChunkItems(c) : Finished(i)
        /\ Holdings(<<tr>>) = Holdings(ResultsOf(Contributing, 1))

\* C15 witness: the social media task and the first chunk task of the search
\* engine task raised; the second chunk task ran and its facts are merged
C15_Witness ==
    /\ pc = "transformed"
    /\ run.social = "raised"
    /\ run.search = "done"
    /\ Len(batch) = 2
    /\ batch[1].state = "raised"
    /\ batch[2].state = "done"
    /\ outcomes[1].state = "done"
    /\ tr.pending_identities # <<>>
    /\ tr = batch[2].result

\* C20: within a chunk the records are taken in list order, one at a time:
\* a record is taken only when every earlier record of its chunk has ended
C20_SequentialWithinChunk ==
    \A i, j \in 1..Len(outcomes) :
        (i < j /\ run.runner # "none" /\ ChunkOf(i) = ChunkOf(j)) =>
            /\ outcomes[j].state # "waiting" => Finished(i)
            /\ ~(outcomes[i].state = "running" /\ outcomes[j].state = "running")

\* C20 witness: the second record of a chunk is in progress after the first
\* has ended
C20_Witness ==
    /\ Len(items) = 2
    /\ run.chunk_size = 2
    /\ outcomes[1].state = "done"
    /\ outcomes[2].state = "running"

\* the usernames of the matched profiles of a platform
OwnUsernames(platform) == ChunkUsernames(ex.data[platform].profiles)

\* C16: a post of a platform is matched exactly when its author or one of its
\* tagged users is a username of a matched profile of the same platform
C16_PostsMatchOwnPlatform ==
    \A platform \in DOMAIN ex.stage :
        ex.stage[platform] = "done" =>
            ex.posts_found[platform] =
                SelectSeq(ex.data[platform].posts,
                          LAMBDA post : PostRelatesToUser(post, OwnUsernames(platform)))

\* C17: the post scan of a platform starts only when the profile scan of the
\* platform is over and the usernames of its matched profiles are discovered
C17_PostsAfterProfiles ==
    \A platform \in DOMAIN ex.stage :
        (\/ ex.stage[platform] \in {"posts", "done"}
         \/ \E k \in 1..Len(ex.ready) : ex.ready[k] = Task("post_chunk", platform)) =>
            /\ ex.scanned[platform]
            /\ OwnUsernames(platform) \subseteq ex.discovered

\* C17 witness: the post chunk of a platform waits to run after the username
\* of the matched profile of the platform was discovered, while the other
\* platform has not finished its profile scan
C17_Witness ==
    /\ ex.ready # <<>>
    /\ \E platform \in Platforms, other \in Platforms :
          /\ other # platform
          /\ OwnUsernames(platform) # {}
          /\ \E k \in 1..Len(ex.ready) : ex.ready[k] = Task("post_chunk", platform)
          /\ ex.scanned[platform]
          /\ ex.stage[other] = "profiles"

FootprintCalls == {k \in 1..Len(resolving.calls) : resolving.calls[k].op = "footprint"}

\* C21: for a pair found neither in cache nor in storage the resolver returns
\* is_new = true with a footprint that carries the id of the Source of the
\* reference_url's domain
C21_NewFootprintHasSource ==
    \A k \in FootprintCalls :
        LET call == resolving.calls[k]
        IN (~call.get_fails /\ ~call.cached /\ ~call.stored) =>
              /\ ~call.raised
              /\ call.is_new

\* C22: of two calls with the same arguments, the pair being in storage when
\* the second is made, the first returns and the second returns is_new =
\* false with the same pair, from the cache if it is there and from storage
\* otherwise
C22_ResolveIdempotent ==
    \A i, j \in FootprintCalls :
        LET first == resolving.calls[i]
            second == resolving.calls[j]
        IN (/\ i < j
            /\ first.url = second.url
            /\ first.type = second.type
            /\ ~first.get_fails
            /\ ~second.get_fails
            /\ second.stored)
           => /\ ~first.raised
              /\ ~second.raised
              /\ ~second.is_new
              /\ second.fp.url = first.url
              /\ second.fp.media = first.media
              /\ second.how = IF second.cached THEN "cached" ELSE "stored"

\* C23: a cache read that raises counts as a miss: the footprint or the user
\* that is in storage is still returned
C23_CacheErrorFallsThrough ==
    \A k \in 1..Len(resolving.calls) :
        LET call == resolving.calls[k]
        IN (call.get_fails /\ call.stored) => ~call.raised

\* C24: storage holds at most one Source row per domain, and a resolution
\* that needs the Source of a domain ends with that row in storage and
\* without an exception
C24_OneSourcePerDomain ==
    resolving.open =>
        /\ \A a, b \in resolving.sources : a.url = b.url => a = b
        /\ \A k \in FootprintCalls :
              LET call == resolving.calls[k]
              IN (~call.get_fails /\ ~call.cached /\ ~call.stored) =>
                    /\ call.how # "attribute_error"
                    /\ \E row \in resolving.sources : row.url = ExtractDomainFromUrl(call.url)

\* C25: a call of the resolver leaves the footprint table as it is and adds
\* to the cache nothing but rows of the footprint table
C25_ResolveLeavesFootprints ==
    [][resolving'.calls # resolving.calls =>
          /\ db'.fps = db.fps
          /\ (cache' \ cache) \subseteq db.fps]_vars

\* C25 witness: one call found its footprint in storage and cached it, another
\* found its pair nowhere
C25_Witness ==
    /\ FootprintCalls = {1, 2}
    /\ resolving.calls[1].how = "stored"
    /\ resolving.calls[1].fp \in cache
    /\ resolving.calls[2].how = "attribute_error"
    /\ resolving.calls[2].url # resolving.calls[1].url
    /\ cache \subseteq db.fps

\* the file name splits into a non-empty stem, a dot and a dot-free,
\* non-empty extension
HasExtension(name) ==
    /\ Len(name) >= 3
    /\ name[Len(name) - 1] = Dot
    /\ name[Len(name)] # Dot

FoldedExtension(name) == IF HasExtension(name) THEN Lower(name[Len(name)]) ELSE ""

ImagePlaceholders ==
    [e \in {"png", "jpg", "jpeg", "gif"} |->
        CASE e = "png" -> "src/media/images/mock_image.png"
          [] e = "jpg" -> "src/media/images/mock_image.jpg"
          [] e = "jpeg" -> "src/media/images/mock_image.jpeg"
          [] e = "gif" -> "src/media/images/mock_image.gif"]

VideoPlaceholders ==
    [e \in {"mp4", "avi", "wmv", "mkv"} |->
        CASE e = "mp4" -> "src/media/videos/mock_video.mp4"
          [] e = "avi" -> "src/media/videos/mock_video.avi"
          [] e = "wmv" -> "src/media/videos/mock_video.wmv"
          [] e = "mkv" -> "src/media/videos/mock_video.mkv"]

PresentParts(addr) ==
    (IF addr.street # NoText /\ addr.number # NoNumber THEN 1 ELSE 0)
    + (IF addr.city # NoText THEN 1 ELSE 0)
    + (IF addr.country # NoText THEN 1 ELSE 0)

\* C27: an address contributes a string to the identifier index only when at
\* least two of {street with number, city, country} are present; with exactly
\* street, number and city the 'number street, city' string is its one
\* contribution (no three-part string); with fewer than two nothing is emitted
C27_AddressNeedsTwoParts ==
    (app.of = "identifiers" /\ app.done) =>
        \A k \in 1..Len(app.addresses) :
            LET addr == app.addresses[k]
                out == app.emitted[k]
            IN /\ out # {} => PresentParts(addr) >= 2
               /\ PresentParts(addr) < 2 => out = {}
               /\ (addr.street # NoText /\ addr.number # NoNumber
                      /\ addr.city # NoText /\ addr.country = NoText)
                    => /\ out = {"5 main, haifa"}
                       /\ "5 main, haifa, israel" \notin app.addresses_found
                          \/ \E j \in 1..Len(app.addresses) :
                                PresentParts(app.addresses[j]) = 3
               /\ out \subseteq app.addresses_found

C27_Witness ==
    /\ app.of = "identifiers"
    /\ app.done
    /\ Len(app.addresses) = 2
    /\ app.addresses[1] = [street |-> "Main", number |-> 5,
                           city |-> "Haifa", country |-> NoText]
    /\ app.addresses[2] = [street |-> "Main", number |-> NoNumber,
                           city |-> "Haifa", country |-> NoText]
    /\ app.addresses_found = {"5 main, haifa"}

\* C28: spelling the subject's first and last name inside a profile record or
\* a search result in another letter case does not change the decision of
\* the profile matcher or of the free-text matcher
C28_MatchIgnoresCase ==
    (app.of = "match" /\ app.done) => app.decision = app.decision_variant

\* the session of the running load() committed: storage is what the session held
CommitReached == pc = "done" /\ ~raised

\* C29: within one load call the status only moves not started -> in progress
\* -> completed or failed; it is completed exactly when the commit was reached
\* and failed exactly when an exception left load(); the summary's success
\* flag is true exactly when the status is completed
C29_StatusFollowsLoad ==
    /\ [][load_status' # load_status =>
             \/ load_status = "not_started" /\ load_status' = "in_progress"
             \/ load_status = "in_progress" /\ load_status' = "completed"
                  /\ pc = "commit" /\ db' = tx' /\ ~raised'
             \/ load_status = "in_progress" /\ load_status' = "failed" /\ raised'
             \/ loads' = loads + 1 /\ load_status' = "not_started"]_vars
    /\ [](/\ load_status = "completed" <=> CommitReached
          /\ load_status = "failed" <=> (pc = "done" /\ raised)
          /\ LoadSummary.success <=> CommitReached
          /\ LoadSummary.load_status = load_status)

C29_Witness ==
    /\ load_status = "completed"
    /\ LoadSummary.success
    /\ LoadSummary.total_records_skipped > 0
    /\ LoadSummary.error_count > 0

\* C30: a raw record with an absent key never aborts extraction: the
\* extraction completes and every record of every chunk has been scanned, a
\* post without post_type and a search result without result_type included
C30_AbsentKeyNeverAborts ==
    (app.of = "scan" /\ app.pc \in {"completed", "failed"}) =>
        /\ app.pc = "completed"
        /\ app.posts_chunk.scanned = Len(app.posts)
        /\ app.results_chunk.scanned = Len(app.results)

\* the records of the run whose footprint the resolver found in cache or
\* storage (is_new = false, the footprint has an id)
ResolvedExisting == {k \in 1..Len(outcomes) : outcomes[k].how \in {"cached", "stored"}}

\* the id of the row holding the pair of record k when the run started
StoredId(k) ==
    ExistingFootprint(db_before.fps,
                      [id |-> NoId, url |-> outcomes[k].url, media |-> outcomes[k].media])

\* C31: every facet and timestamp tracked for a footprint that already
\* existed in storage is persisted by the load that follows, as an identity
\* or activity row with that footprint's id
C31_ExistingFootprintFactsPersisted ==
    Completed =>
        \A k \in ResolvedExisting :
            /\ \A e \in Range(outcomes[k].result.pending_identities) :
                   <<StoredId(k), e[2]>> \in db.ids
            /\ \A e \in Range(outcomes[k].result.pending_activity_logs) :
                   <<StoredId(k), e[2]>> \in db.acts

\* C32: after a completed run for a subject every footprint resolved for the
\* subject during transformation is linked to the subject in storage,
\* whether it was new or already stored
C32_ResolvedFootprintsLinked ==
    Completed =>
        \A k \in 1..Len(outcomes) :
            outcomes[k].how \in {"cached", "stored", "new"} =>
                \E row \in db.fps :
                    /\ row.url = outcomes[k].url
                    /\ row.media = outcomes[k].media
                    /\ <<user_id, row.id>> \in db.links

\* C33: in every committed storage state every identity row, activity-log
\* row and subject-footprint link row references a footprint id that has a
\* row in the footprint table
C33_FactsReferenceFootprints ==
    /\ \A row \in db.ids : row[1] \in FootprintIds(db)
    /\ \A row \in db.acts : row[1] \in FootprintIds(db)
    /\ \A row \in db.links : row[2] \in FootprintIds(db)

\* C33 witness: a completed load whose identity stage rolled back and fell
\* back to individual inserts, with fact rows in storage
C33_Witness ==
    /\ Completed
    /\ paths["identities"] = "individual"
    /\ db.ids # {}
    /\ db.links # {}
    /\ C33_FactsReferenceFootprints

\* the usernames of the matched profiles of every platform
AllUsernames == UNION {OwnUsernames(platform) : platform \in Platforms}

\* C34: the posts matched on a platform are the same in every interleaving of
\* the platform tasks and their chunk tasks: whichever of the other
\* platforms' profile scans had finished when the post chunk ran, the same
\* posts would have matched
C34_MatchIndependentOfScanOrder ==
    \A platform \in DOMAIN ex.stage :
        ex.stage[platform] = "done" =>
            \A discovered \in SUBSET AllUsernames :
                OwnUsernames(platform) \subseteq discovered =>
                    ex.posts_found[platform] =
                        SelectSeq(ex.data[platform].posts,
                                  LAMBDA post : PostRelatesToUser(post, discovered))

\* C35: a picture facet is tracked for a footprint only if the face matcher
\* answered is_match = true for that footprint's media_filepath while the
\* same item was processed; when the matcher raises, or the media file or the
\* reference photo is missing, no picture facet is tracked and the item is
\* processed to its end
C35_PictureOnlyOnFaceMatch ==
    (app.of = "analyze" /\ app.done) =>
        LET fp == app.digital_footprint
            pictured == <<fp.url, Picture>> \in app.pending_identities
        IN /\ pictured => /\ app.matched = <<fp.media>>
                          /\ fp.media # NoMedia
                          /\ app.env.matcher = "match"
           /\ (\/ app.env.matcher = "raises"
               \/ ~app.env.media_exists
               \/ ~app.env.reference_exists
               \/ ~app.env.reference_photo) => ~pictured
           /\ app.pending_activity_logs # {}
           /\ \A x \in Range(app.text_identities) : <<fp.url, x>> \in app.pending_identities

C35_Witness ==
    /\ app.of = "analyze"
    /\ app.done
    /\ app.type = "video"
    /\ app.env.matcher = "match"
    /\ app.env.transcriptor = "raises"
    /\ app.pending_identities = {<<"u1", Picture>>}
    /\ app.face_matches_found = 1

\* C36: a failing cache write during the lookup of the subject or of a
\* footprint never aborts the caller: the value read from storage is still
\* returned
C36_CacheWriteFailureTolerated ==
    \A k \in 1..Len(resolving.calls) :
        LET call == resolving.calls[k]
        IN call.set_fails =>
               /\ ~call.raised
               /\ call.how = "stored"
               /\ call.op = "footprint" =>
                      /\ ~call.is_new
                      /\ call.fp \in db.fps
                      /\ call.fp.url = call.url
                      /\ call.fp.media = call.media

C36_Witness ==
    /\ Len(resolving.calls) = 2
    /\ resolving.calls[1].op = "user"
    /\ resolving.calls[1].set_fails
    /\ ~resolving.user_cached
    /\ resolving.calls[2].op = "footprint"
    /\ resolving.calls[2].set_fails
    /\ resolving.calls[2].fp \in db.fps
    /\ resolving.calls[2].fp \notin cache

\* the counters of a result agree with each other and with its footprint list
StatsConsistent(result) ==
    LET stats == result.processing_stats
    IN /\ stats.footprints_found = stats.new_footprints + stats.existing_footprints
       /\ stats.new_footprints = Len(result.new_digital_footprints)
       /\ stats.footprints_found <= stats.items_processed

\* C37: in every transformation result, of one record, of one chunk and
\* merged, footprints_found is new_footprints plus existing_footprints,
\* new_footprints is the length of new_digital_footprints and footprints_found
\* is at most items_processed
C37_FootprintCountersAgree ==
    /\ \A i \in 1..Len(outcomes) :
          outcomes[i].state = "done" => StatsConsistent(outcomes[i].result)
    /\ \A c \in 1..Len(batch) : StatsConsistent(batch[c].result)
    /\ run.runner # "none" => StatsConsistent(run.result)
    /\ StatsConsistent(tr)

\* C37 witness: a finished run that found a stored footprint for one record
\* and none for another whose resolution raised
C37_Witness ==
    /\ pc = "transformed"
    /\ tr.processing_stats.items_processed = 2
    /\ tr.processing_stats.footprints_found = 1
    /\ tr.processing_stats.existing_footprints = 1


\* the stages after _load_digital_footprints, and the completed load
FootprintStageOver ==
    pc \in {"create", "identities", "activities", "links", "commit"} \/ Completed

\* C38: once the footprint stage of a load that did not raise is over, every
\* footprint handed to the load was counted exactly once, as inserted or as
\* skipped: footprints_inserted + footprints_skipped is the length of
\* new_digital_footprints, on the bulk path and on the individual path
C38_FootprintsCountedOnce ==
    (FootprintStageOver /\ ~raised)
        => load_result.footprints_inserted + load_result.footprints_skipped
               = Len(tr.new_digital_footprints)

C38_Witness ==
    /\ Completed
    /\ paths.footprints = "individual"
    /\ load_result.footprints_inserted > 0
    /\ load_result.footprints_skipped > 0


\* C39: a load never updates or deletes a footprint row that was stored
\* before the load started: every such row is still in storage, unchanged,
\* while the load runs and after it has ended, committed or not; on the
\* individual path a footprint that matches a stored row only takes over that
\* row's id
C39_StoredFootprintsUntouched ==
    (InLoad \/ pc = "done")
        => /\ db_before.fps \subseteq db.fps
           /\ db_before.fps \subseteq tx.fps
           /\ paths.footprints = "individual"
                  => \A i \in 1..Len(tr.new_digital_footprints) :
                         LET fp == tr.new_digital_footprints[i]
                             existing == ExistingFootprint(db_before.fps, fp)
                         IN existing # NoId => fp.id = existing

C39_Witness ==
    /\ Completed
    /\ paths.footprints = "individual"
    /\ db_before.fps # {}
    /\ db_before.fps # db.fps
    /\ \E i \in 1..Len(tr.new_digital_footprints) :
           ExistingFootprint(db_before.fps, tr.new_digital_footprints[i]) # NoId

====
